---- MODULE Spec2Model ----
(***************************************************************************)
(* A model of the engineering-manager MCP server's standup-report engine:  *)
(* the issue classifier and report builder of src/src/jira-handler.ts, the *)
(* retry helper of src/src/utils/errors.ts and the TTL cache of            *)
(* src/src/utils/cache.ts.                                                 *)
(*                                                                         *)
(* Sixteen specifications share the module's variables:                    *)
(*   SpecBuilder  the classifier and the report aggregation, applied to    *)
(*                bounded issue lists (variables bIssues .. bOut);         *)
(*   SpecRetry    RetryHelper.retry as a step machine (variables r..);     *)
(*   Spec         the Jira tool calls over the shared sprint cache, the    *)
(*                clock and the upstream tracker (cache, now, jira, ...);  *)
(*   SpecGateway  getActiveSprint and getSprintTickets, page by page,      *)
(*                over the same cache (cache, now, jira and t..);          *)
(*   SpecCache    one CacheManager under every sequence of its methods     *)
(*                (cache, now and c..);                                    *)
(*   SpecStatus   the builder applied to one issue of every status text;   *)
(*   SpecServer   the request handler of index.ts dispatching every tool   *)
(*                name to the Jira and Slack handlers (cache, now, jira,   *)
(*                last);                                                   *)
(*   SpecStartup  the configuration loaded at the start (env, boot);       *)
(*   SpecCalls    two overlapping calls on the cache (cache, now, q..);    *)
(*   SpecPages    the retry of each page request of the paginated fetch    *)
(*                (r.., t.., last);                                        *)
(*   SpecSweep    the periodic cleanup timer of a CacheManager, with the   *)
(*                fairness of the event loop (cache, now, c..);            *)
(*   SpecPattern  invalidatePattern on stores of short keys (cache, c..);  *)
(*   SpecRender   generateStandupPDF on both rendering paths (b.., last);  *)
(*   SpecOverlap  overlapping sprint tool calls, one request at a time     *)
(*                (cache, now, jira, q..);                                 *)
(*   SpecUpdate   jira_update_issue between cached reads (cache, now,      *)
(*                jira, last);                                             *)
(*   SpecTally    the counts of jira_get_sprint_issues (cache, now, jira,  *)
(*                last).                                                   *)
(*                                                                         *)
(* Text that the code inspects character by character (status names) is a  *)
(* sequence of one-character strings; text that the code only compares     *)
(* for equality (labels, display names, project keys) is a TLA+ string.    *)
(***************************************************************************)
EXTENDS Integers, Sequences, FiniteSets, TLC

VARIABLES
    bIssues,      \* SpecBuilder: the fetched issue list handed to the builder
    bProjectKey,  \* SpecBuilder: validatedArgs.projectKey ("" when absent)
    bDaysStale,   \* SpecBuilder: validatedArgs.daysStale (0 when absent)
    bOut,         \* SpecBuilder: the outcome of the build, or NotBuilt
    rOpts,        \* SpecRetry: the options of the retry call
    rPc,          \* SpecRetry: position inside RetryHelper.retry
    rAttempt,     \* SpecRetry: the loop variable attempt
    rDelay,       \* SpecRetry: the local variable delay
    rLog,         \* SpecRetry: the outcomes of the invocations so far
    rWaits,       \* SpecRetry: the delays slept so far
    rResult,      \* SpecRetry: what retry returned or threw
    cache,        \* Spec: sprintCache's Map, full key -> entry
    now,          \* Spec: Date.now(), in seconds
    jira,         \* Spec: the upstream tracker's data
    last,         \* Spec: the record of the last tool call
    built,        \* Spec: per report key, the last report stored under it
    tPc,          \* SpecGateway: position inside getSprintTickets
    tStartAt,     \* SpecGateway: the generator's local startAt
    tTotal,       \* SpecGateway: the generator's local total
    tAllIssues,   \* SpecGateway: getSprintTickets' local allIssues
    tFetched,     \* SpecGateway: the offsets of the pages received in this call
    tBefore,      \* SpecGateway: the cache as the running call found it
    tResult,      \* SpecGateway: what the last gateway call returned or threw
    tSprintAt,    \* SpecGateway: when the sprint of board 1 was last cached
    cConfig,      \* SpecCache: the manager's prefix, defaultTTL and maxSize
    cHits,        \* SpecCache: this.hitCount
    cMisses,      \* SpecCache: this.missCount
    cLast,        \* SpecCache: the last method called and what it returned
    cleanupInterval, \* SpecSweep: this.cleanupInterval, the timer of the sweep
    env,          \* SpecStartup: process.env after dotenv.config()
    boot,         \* SpecStartup: how far the start of the server got
    qCall,        \* SpecCalls: the two calls in flight, each with its position
    qDone         \* SpecCalls: the calls that completed, in order

bVars == <<bIssues, bProjectKey, bDaysStale, bOut>>
rVars == <<rOpts, rPc, rAttempt, rDelay, rLog, rWaits, rResult>>
mVars == <<cache, now, jira, last, built>>
tVars == <<tPc, tStartAt, tTotal, tAllIssues, tFetched, tBefore, tResult, tSprintAt>>
cVars == <<cConfig, cHits, cMisses, cLast, cleanupInterval>>
yVars == <<env, boot, qCall, qDone>>
xVars == <<tVars, cVars, yVars>>
vars == <<bVars, rVars, mVars, xVars>>

----------------------------------------------------------------------------
(* Text helpers: String.prototype.toLowerCase and String.prototype.includes *)

UpperLetters ==
    <<"A","B","C","D","E","F","G","H","I","J","K","L","M",
      "N","O","P","Q","R","S","T","U","V","W","X","Y","Z">>

LowerLetters ==
    <<"a","b","c","d","e","f","g","h","i","j","k","l","m",
      "n","o","p","q","r","s","t","u","v","w","x","y","z">>

LowerChar(c) ==
    IF \E i \in 1..Len(UpperLetters) : UpperLetters[i] = c
    THEN LowerLetters[CHOOSE i \in 1..Len(UpperLetters) : UpperLetters[i] = c]
    ELSE c

ToLowerCase(s) == [i \in 1..Len(s) |-> LowerChar(s[i])]

Includes(s, sub) ==
    \E i \in 0..(Len(s) - Len(sub)) : SubSeq(s, i + 1, i + Len(sub)) = sub

TxtDone == <<"d","o","n","e">>
TxtClosed == <<"c","l","o","s","e","d">>
TxtResolved == <<"r","e","s","o","l","v","e","d">>
TxtProgress == <<"p","r","o","g","r","e","s","s">>
TxtReview == <<"r","e","v","i","e","w">>
TxtTesting == <<"t","e","s","t","i","n","g">>
TxtBlocked == <<"b","l","o","c","k","e","d">>
TxtUnknown == <<"U","n","k","n","o","w","n">>

----------------------------------------------------------------------------
(* Issue records.                                                           *)
(*   status       fields.status.name as text; <<>> when missing or empty    *)
(*   hasAssignee  fields.assignee is present                                *)
(*   displayName  fields.assignee.displayName; "" when missing              *)
(*   email        fields.assignee.emailAddress; "" when missing             *)
(*   updated, created   [has, ms]: an ISO timestamp, as its time value      *)
(*   duedate      a date-only ISO string of the model's month, as the two   *)
(*                digits of its day, <<D, D>>; <<>> when null or empty      *)
(*   labels       fields.labels, a sequence of strings                      *)
(*   project      fields.project.key; "" when missing                       *)
(* summary, priority, url and lastComment are carried through the builder   *)
(* unread and are left out.                                                 *)

MsPerDay == 1000 * 60 * 60 * 24

DefaultDaysStale == 2

Stamp(ms) == [has |-> TRUE, ms |-> ms]
NoStamp == [has |-> FALSE, ms |-> 0]

\* new Date(duedate).getTime() for a date-only string: midnight of that day
DueMs(d) == (10 * d[1] + d[2] - 1) * MsPerDay

\* a.localeCompare(b) on strings of digits: code-unit order, a proper prefix first
RECURSIVE LocaleCompare(_, _)
LocaleCompare(a, b) ==
    IF a = <<>> /\ b = <<>> THEN 0
    ELSE IF a = <<>> THEN -1
    ELSE IF b = <<>> THEN 1
    ELSE IF Head(a) < Head(b) THEN -1
    ELSE IF Head(a) > Head(b) THEN 1
    ELSE LocaleCompare(Tail(a), Tail(b))

categorizeStatusContaining(status) ==
    LET statusLower == ToLowerCase(status) IN
    IF \/ Includes(statusLower, TxtDone)
       \/ Includes(statusLower, TxtClosed)
       \/ Includes(statusLower, TxtResolved)
    THEN "completed"
    ELSE IF \/ Includes(statusLower, TxtProgress)
            \/ Includes(statusLower, TxtReview)
            \/ Includes(statusLower, TxtTesting)
         THEN "inProgress"
    ELSE "todo"

categorizeStatus(status) ==
    LET statusLower == ToLowerCase(status) IN
    IF statusLower = TxtDone \/ statusLower = TxtClosed \/ statusLower = TxtResolved
    THEN "completed"
    ELSE IF \/ Includes(statusLower, TxtProgress)
            \/ Includes(statusLower, TxtReview)
            \/ Includes(statusLower, TxtTesting)
         THEN "inProgress"
    ELSE "todo"

SeqHas(seq, x) == \E i \in 1..Len(seq) : seq[i] = x

\* issue.fields?.status?.name || 'Unknown'
StatusOf(issue) == IF issue.status = <<>> THEN TxtUnknown ELSE issue.status

\* issue.fields?.updated || issue.fields?.created || ''
UpdatedOf(issue) ==
    IF issue.updated.has THEN issue.updated
    ELSE IF issue.created.has THEN issue.created
    ELSE NoStamp

DaysSinceUpdate(issue, nowMs) ==
    IF UpdatedOf(issue).has THEN (nowMs - UpdatedOf(issue).ms) \div MsPerDay ELSE 0

\* mutant: an issue is stale from daysSinceUpdate = daysStale on
ProblemCategoriesStaleInclusive(issue, daysStale, nowMs) ==
    LET statusLower == ToLowerCase(StatusOf(issue)) IN
    (IF DaysSinceUpdate(issue, nowMs) >= daysStale THEN {"stale"} ELSE {})
    \cup (IF issue.duedate # <<>> /\ DueMs(issue.duedate) < nowMs
          THEN {"overdue"} ELSE {})
    \cup (IF ~issue.hasAssignee THEN {"unassigned"} ELSE {})
    \cup (IF \/ SeqHas(issue.labels, "blocked")
             \/ SeqHas(issue.labels, "impediment")
             \/ Includes(statusLower, TxtBlocked)
          THEN {"blocked"} ELSE {})

\* the four tests of processIssue's "if (!isCompleted)" block
ProblemCategories(issue, daysStale, nowMs) ==
    LET statusLower == ToLowerCase(StatusOf(issue)) IN
    (IF DaysSinceUpdate(issue, nowMs) > daysStale THEN {"stale"} ELSE {})
    \cup (IF issue.duedate # <<>> /\ DueMs(issue.duedate) < nowMs
          THEN {"overdue"} ELSE {})
    \cup (IF ~issue.hasAssignee THEN {"unassigned"} ELSE {})
    \cup (IF \/ SeqHas(issue.labels, "blocked")
             \/ SeqHas(issue.labels, "impediment")
             \/ Includes(statusLower, TxtBlocked)
          THEN {"blocked"} ELSE {})

\* mutant: the isCompleted guard is dropped
CategoriesUnguarded(issue, daysStale, nowMs) ==
    ProblemCategories(issue, daysStale, nowMs)

\* the categories array of processIssue, as the set of its members
Categories(issue, daysStale, nowMs) ==
    IF categorizeStatus(StatusOf(issue)) = "completed" THEN {}
    ELSE ProblemCategories(issue, daysStale, nowMs)

\* the IssueData part of processIssue's result (everything but categories)
IssueDataOf(issue, nowMs) ==
    [ key |-> issue.key,
      status |-> StatusOf(issue),
      assignee |-> IF issue.hasAssignee /\ issue.displayName # ""
                   THEN issue.displayName ELSE "Unassigned",
      assigneeEmail |-> IF issue.hasAssignee THEN issue.email ELSE "",
      updated |-> UpdatedOf(issue),
      duedate |-> issue.duedate,
      daysSinceUpdate |-> DaysSinceUpdate(issue, nowMs),
      labels |-> issue.labels ]

processIssue(issue, daysStale, nowMs) ==
    [ data |-> IssueDataOf(issue, nowMs),
      categories |-> Categories(issue, daysStale, nowMs) ]

----------------------------------------------------------------------------
(* The report aggregation of the jira_daily_standup_report case.            *)

\* property names every object literal inherits from Object.prototype:
\* report.byAssignee[name] is truthy for them before any bucket is created
ObjectPrototypeKeys ==
    {"constructor", "toString", "valueOf", "hasOwnProperty", "__proto__"}

\* new Date().toISOString().split('T')[0], as the number of the day
DateOf(nowMs) == nowMs \div MsPerDay + 1

EmptyReport(sprint, projectKey, nowMs) ==
    [ sprintName |-> sprint.name,
      sprintId |-> sprint.id,
      date |-> DateOf(nowMs),
      staleIssues |-> <<>>,
      overdueIssues |-> <<>>,
      unassignedIssues |-> <<>>,
      blockedIssues |-> <<>>,
      byAssignee |-> <<>>,
      summary |-> [ totalSprintIssues |-> 0,
                    completedIssues |-> 0,
                    inProgressIssues |-> 0,
                    todoIssues |-> 0,
                    projectFiltered |-> projectKey # "",
                    projectKey |-> projectKey ] ]

\* byAssignee is kept as the sequence of its buckets in insertion order
\* (the order in which JSON.stringify writes the object's keys)
BucketIndex(byAssignee, name) ==
    IF \E i \in 1..Len(byAssignee) : byAssignee[i].name = name
    THEN CHOOSE i \in 1..Len(byAssignee) : byAssignee[i].name = name
    ELSE 0

PushIf(cond, seq, x) == IF cond THEN Append(seq, x) ELSE seq

\* mutant: an issue without a project passes every filter
PassesFilterWithoutProject(issue, projectKey) ==
    projectKey = "" \/ issue.project = projectKey \/ issue.project = ""

\* the filter at the head of the forEach callback
PassesFilter(issue, projectKey) == projectKey = "" \/ issue.project = projectKey

\* mutant: staleCount is incremented for every grouped issue
GroupByAssigneeCountAll(byAssignee, p) ==
    LET name == p.data.assignee
        at == BucketIndex(byAssignee, name)
        withBucket ==
            IF at = 0
            THEN Append(byAssignee, [ name |-> name,
                                      email |-> p.data.assigneeEmail,
                                      issues |-> <<>>,
                                      staleCount |-> 0,
                                      overdueCount |-> 0 ])
            ELSE byAssignee
        k == IF at = 0 THEN Len(withBucket) ELSE at
        b == withBucket[k]
    IN [withBucket EXCEPT ![k] =
            [ b EXCEPT !.issues = Append(b.issues, p.data),
                       !.staleCount = b.staleCount + 1,
                       !.overdueCount = b.overdueCount
                            + (IF "overdue" \in p.categories THEN 1 ELSE 0) ]]

\* lines 611-628: group by assignee
GroupByAssignee(byAssignee, p) ==
    LET name == p.data.assignee
        at == BucketIndex(byAssignee, name)
        withBucket ==
            IF at = 0
            THEN Append(byAssignee, [ name |-> name,
                                      email |-> p.data.assigneeEmail,
                                      issues |-> <<>>,
                                      staleCount |-> 0,
                                      overdueCount |-> 0 ])
            ELSE byAssignee
        k == IF at = 0 THEN Len(withBucket) ELSE at
        b == withBucket[k]
    IN [withBucket EXCEPT ![k] =
            [ b EXCEPT !.issues = Append(b.issues, p.data),
                       !.staleCount = b.staleCount
                            + (IF "stale" \in p.categories THEN 1 ELSE 0),
                       !.overdueCount = b.overdueCount
                            + (IF "overdue" \in p.categories THEN 1 ELSE 0) ]]

\* mutant: the total is incremented behind the early return for completed issues
CountStatusTotalLate(summary, statusCategory) ==
    IF statusCategory = "completed"
    THEN [summary EXCEPT !.completedIssues = @ + 1]
    ELSE IF statusCategory = "inProgress"
    THEN [summary EXCEPT !.totalSprintIssues = @ + 1, !.inProgressIssues = @ + 1]
    ELSE [summary EXCEPT !.totalSprintIssues = @ + 1, !.todoIssues = @ + 1]

\* lines 578-591: the total and the counter of the status category
CountStatus(summary, statusCategory) ==
    LET counted == [summary EXCEPT !.totalSprintIssues = @ + 1] IN
    IF statusCategory = "completed"
    THEN [counted EXCEPT !.completedIssues = @ + 1]
    ELSE IF statusCategory = "inProgress"
    THEN [counted EXCEPT !.inProgressIssues = @ + 1]
    ELSE [counted EXCEPT !.todoIssues = @ + 1]

\* one run of the forEach callback; acc is [report, thrown]
ProcessOne(acc, issue, projectKey, daysStale, nowMs) ==
    LET report == acc.report
        p == processIssue(issue, daysStale, nowMs)
        statusCategory == categorizeStatus(p.data.status)
        tallied == [report EXCEPT !.summary = CountStatus(@, statusCategory)]
    IN
    IF acc.thrown \/ ~PassesFilter(issue, projectKey) THEN acc
    ELSE IF statusCategory = "completed"
    THEN [acc EXCEPT !.report = tallied]
    ELSE
      LET listed ==
              [tallied EXCEPT
                 !.staleIssues = PushIf("stale" \in p.categories, @, p.data),
                 !.overdueIssues = PushIf("overdue" \in p.categories, @, p.data),
                 !.unassignedIssues = PushIf("unassigned" \in p.categories, @, p.data),
                 !.blockedIssues = PushIf("blocked" \in p.categories, @, p.data)]
      IN
      \* an assignee named like an inherited property finds no bucket of its
      \* own and no issues array: the push throws a TypeError
      IF p.data.assignee \in ObjectPrototypeKeys
      THEN [report |-> listed, thrown |-> TRUE]
      ELSE [report |-> [listed EXCEPT !.byAssignee = GroupByAssignee(@, p)],
            thrown |-> FALSE]

RECURSIVE ProcessAll(_, _, _, _, _)
ProcessAll(acc, issues, projectKey, daysStale, nowMs) ==
    IF issues = <<>> THEN acc
    ELSE ProcessAll(ProcessOne(acc, Head(issues), projectKey, daysStale, nowMs),
                    Tail(issues), projectKey, daysStale, nowMs)

\* Array.prototype.sort is stable: x goes behind every element that does not
\* compare greater than it
InsertAt(sorted, k, x) == SubSeq(sorted, 1, k) \o <<x>> \o SubSeq(sorted, k + 1, Len(sorted))

\* mutant: the comparator's operands are swapped (ascending order)
CompareStaleAscending(a, b) == a.daysSinceUpdate - b.daysSinceUpdate

\* (a, b) => b.daysSinceUpdate - a.daysSinceUpdate
CompareStale(a, b) == b.daysSinceUpdate - a.daysSinceUpdate

\* (a, b) => (a.duedate || '').localeCompare(b.duedate || '')
CompareOverdue(a, b) == LocaleCompare(a.duedate, b.duedate)

RECURSIVE SortStale(_)
SortStale(list) ==
    IF list = <<>> THEN <<>>
    ELSE LET sorted == SortStale(SubSeq(list, 1, Len(list) - 1))
             x == list[Len(list)]
             keep == {i \in 0..Len(sorted) :
                        \A j \in 1..i : CompareStale(sorted[j], x) <= 0}
             k == CHOOSE i \in keep : \A j \in keep : j <= i
         IN InsertAt(sorted, k, x)

RECURSIVE SortOverdue(_)
SortOverdue(list) ==
    IF list = <<>> THEN <<>>
    ELSE LET sorted == SortOverdue(SubSeq(list, 1, Len(list) - 1))
             x == list[Len(list)]
             keep == {i \in 0..Len(sorted) :
                        \A j \in 1..i : CompareOverdue(sorted[j], x) <= 0}
             k == CHOOSE i \in keep : \A j \in keep : j <= i
         IN InsertAt(sorted, k, x)

EffectiveDaysStale(daysStale) == IF daysStale = 0 THEN DefaultDaysStale ELSE daysStale

\* lines 551-633: the report built from the fetched issues, or the TypeError
BuildReport(sprint, issues, projectKey, daysStale, nowMs) ==
    LET acc == ProcessAll([report |-> EmptyReport(sprint, projectKey, nowMs), thrown |-> FALSE],
                          issues, projectKey, EffectiveDaysStale(daysStale), nowMs)
    IN IF acc.thrown
       THEN [ok |-> FALSE, report |-> EmptyReport(sprint, projectKey, nowMs)]
       ELSE [ok |-> TRUE,
             report |-> [acc.report EXCEPT
                          !.staleIssues = SortStale(@),
                          !.overdueIssues = SortOverdue(@)]]

----------------------------------------------------------------------------
(* SpecBuilder: the builder applied to every issue list of at most          *)
(* MaxIssues issues drawn from IssuePool.                                   *)

MaxIssues == 3

\* the builder's clock: noon of the model month's 21st day
BuilderNow == 20 * MsPerDay + MsPerDay \div 2

Txt_Done == <<"D","o","n","e">>
Txt_RESOLVED == <<"R","E","S","O","L","V","E","D">>
Txt_InProgress == <<"I","n"," ","P","r","o","g","r","e","s","s">>
Txt_ToDo == <<"T","o"," ","D","o">>
Txt_Blocked == <<"B","l","o","c","k","e","d">>
Txt_CodeReview == <<"C","o","d","e"," ","R","e","v","i","e","w">>
Txt_Testing == <<"T","e","s","t","i","n","g">>

DaysAgo(nowMs, days, extraMs) == Stamp(nowMs - days * MsPerDay - extraMs)

IssuePoolAt(nowMs) ==
    { [ key |-> "WEB-1", status |-> Txt_Done, hasAssignee |-> TRUE,
        displayName |-> "alice", email |-> "alice@x.io",
        updated |-> DaysAgo(nowMs, 10, 0), created |-> DaysAgo(nowMs, 12, 0),
        duedate |-> <<0, 5>>, labels |-> <<"blocked">>, project |-> "WEB" ],
      [ key |-> "WEB-2", status |-> Txt_InProgress, hasAssignee |-> TRUE,
        displayName |-> "alice", email |-> "alice@x.io",
        updated |-> DaysAgo(nowMs, 5, 1000), created |-> DaysAgo(nowMs, 12, 0),
        duedate |-> <<1, 9>>, labels |-> <<>>, project |-> "WEB" ],
      [ key |-> "WEB-3", status |-> Txt_ToDo, hasAssignee |-> FALSE,
        displayName |-> "", email |-> "",
        updated |-> DaysAgo(nowMs, 0, 3600000), created |-> DaysAgo(nowMs, 1, 0),
        duedate |-> <<>>, labels |-> <<>>, project |-> "WEB" ],
      [ key |-> "API-4", status |-> Txt_Blocked, hasAssignee |-> TRUE,
        displayName |-> "bob", email |-> "",
        updated |-> DaysAgo(nowMs, 3, 0), created |-> DaysAgo(nowMs, 3, 0),
        duedate |-> <<0, 9>>, labels |-> <<>>, project |-> "API" ],
      [ key |-> "API-5", status |-> Txt_CodeReview, hasAssignee |-> TRUE,
        displayName |-> "bob", email |-> "",
        updated |-> NoStamp, created |-> DaysAgo(nowMs, 2, 7200000),
        duedate |-> <<2, 5>>, labels |-> <<"ui", "impediment">>, project |-> "API" ],
      [ key |-> "WEB-6", status |-> <<>>, hasAssignee |-> TRUE,
        displayName |-> "", email |-> "carol@x.io",
        updated |-> NoStamp, created |-> NoStamp,
        duedate |-> <<1, 0>>, labels |-> <<"Blocked">>, project |-> "WEB" ],
      [ key |-> "API-7", status |-> Txt_RESOLVED, hasAssignee |-> FALSE,
        displayName |-> "", email |-> "",
        updated |-> DaysAgo(nowMs, 10, 0), created |-> DaysAgo(nowMs, 10, 0),
        duedate |-> <<0, 5>>, labels |-> <<>>, project |-> "API" ],
      [ key |-> "WEB-8", status |-> Txt_Testing, hasAssignee |-> TRUE,
        displayName |-> "constructor", email |-> "",
        updated |-> DaysAgo(nowMs, 7, 0), created |-> DaysAgo(nowMs, 7, 0),
        duedate |-> <<>>, labels |-> <<>>, project |-> "WEB" ],
      \* an issue whose fields carry no project
      [ key |-> "OPS-9", status |-> Txt_InProgress, hasAssignee |-> TRUE,
        displayName |-> "dave", email |-> "",
        updated |-> DaysAgo(nowMs, 1, 0), created |-> DaysAgo(nowMs, 4, 0),
        duedate |-> <<2, 0>>, labels |-> <<"impediment">>, project |-> "" ] }

IssuePool == IssuePoolAt(BuilderNow)

IssueLists == UNION {[1..n -> IssuePool] : n \in 0..MaxIssues}

\* projectKey passes /^[A-Z]{2,10}$/ or is absent; daysStale is 1..30 or absent
BuilderProjectKeys == {"", "WEB"}
BuilderDaysStale == {0, 1}

BuilderSprint == [id |-> 7, name |-> "Sprint 42"]

NotBuilt == [done |-> FALSE, ok |-> FALSE,
             report |-> EmptyReport(BuilderSprint, "", BuilderNow)]

RetryIdle ==
    /\ rOpts = <<>>
    /\ rPc = "idle"
    /\ rAttempt = 0
    /\ rDelay = 0
    /\ rLog = <<>>
    /\ rWaits = <<>>
    /\ rResult = <<>>

MainIdle ==
    /\ cache = <<>>
    /\ now = 0
    /\ jira = <<>>
    /\ last = <<>>
    /\ built = <<>>

GatewayIdle ==
    /\ tPc = "idle"
    /\ tStartAt = 0
    /\ tTotal = 0
    /\ tAllIssues = <<>>
    /\ tFetched = <<>>
    /\ tBefore = <<>>
    /\ tResult = <<>>
    /\ tSprintAt = 0

ManagerIdle ==
    /\ cConfig = <<>>
    /\ cHits = 0
    /\ cMisses = 0
    /\ cLast = <<>>
    /\ cleanupInterval = <<>>

StartupIdle ==
    /\ env = <<>>
    /\ boot = <<>>

CallsIdle ==
    /\ qCall = <<>>
    /\ qDone = <<>>

ExtraIdle == GatewayIdle /\ ManagerIdle /\ StartupIdle /\ CallsIdle

InitBuilder ==
    /\ bIssues \in IssueLists
    /\ bProjectKey \in BuilderProjectKeys
    /\ bDaysStale \in BuilderDaysStale
    /\ bOut = NotBuilt
    /\ RetryIdle
    /\ MainIdle
    /\ ExtraIdle

Build ==
    /\ ~bOut.done
    /\ bOut' = [done |-> TRUE] @@
               BuildReport(BuilderSprint, bIssues, bProjectKey, bDaysStale, BuilderNow)
    /\ UNCHANGED <<bIssues, bProjectKey, bDaysStale, rVars, mVars, xVars>>

NextBuilder == Build

SpecBuilder == InitBuilder /\ [][NextBuilder]_vars

----------------------------------------------------------------------------
(* Claims about the built report (SpecBuilder).                             *)

bBuilt == bOut.done /\ bOut.ok
bReport == bOut.report
bEff == IF bDaysStale = 0 THEN 2 ELSE bDaysStale

\* the fetched issues that pass the project filter, by position
bPassing ==
    {i \in 1..Len(bIssues) : bProjectKey = "" \/ bIssues[i].project = bProjectKey}

bIsCompleted(issue) ==
    ToLowerCase(StatusOf(issue)) \in {TxtDone, TxtClosed, TxtResolved}

bOpen == {i \in bPassing : ~bIsCompleted(bIssues[i])}
bData(i) == IssueDataOf(bIssues[i], BuilderNow)
bCats(i) == Categories(bIssues[i], bEff, BuilderNow)
bBucketName(i) ==
    IF bIssues[i].hasAssignee /\ bIssues[i].displayName # ""
    THEN bIssues[i].displayName ELSE "Unassigned"

Occurrences(seq, d) == Cardinality({j \in 1..Len(seq) : seq[j] = d})

bCategoryList(c) ==
    CASE c = "stale" -> bReport.staleIssues
      [] c = "overdue" -> bReport.overdueIssues
      [] c = "unassigned" -> bReport.unassignedIssues
      [] c = "blocked" -> bReport.blockedIssues

AllCategories == {"stale", "overdue", "unassigned", "blocked"}

\* C1: in every built report totalSprintIssues is the sum of the three status
\* counters and equals the number of fetched issues passing the project filter.
C1_TotalIsSumOfCounters ==
    bBuilt =>
        LET sm == bReport.summary IN
        /\ sm.totalSprintIssues = sm.completedIssues + sm.inProgressIssues + sm.todoIssues
        /\ sm.totalSprintIssues = Cardinality(bPassing)

C1_Witness ==
    /\ bBuilt
    /\ bProjectKey # ""
    /\ Cardinality(bPassing) < Len(bIssues)
    /\ bReport.summary.completedIssues >= 1
    /\ bReport.summary.inProgressIssues + bReport.summary.todoIssues >= 1

\* C2: a completed issue has an empty category set, is in none of the four
\* category lists and in no byAssignee bucket, adds to no staleCount or
\* overdueCount, and is counted in totalSprintIssues and completedIssues.
C2_CompletedExcluded ==
    bBuilt =>
        /\ \A i \in 1..Len(bIssues) :
              bIsCompleted(bIssues[i]) =>
                 /\ bCats(i) = {}
                 /\ \A c \in AllCategories : Occurrences(bCategoryList(c), bData(i)) = 0
                 /\ \A k \in 1..Len(bReport.byAssignee) :
                       Occurrences(bReport.byAssignee[k].issues, bData(i)) = 0
        /\ \A k \in 1..Len(bReport.byAssignee) :
              LET b == bReport.byAssignee[k] IN
              /\ b.staleCount <= Cardinality({i \in bOpen : bBucketName(i) = b.name})
              /\ b.overdueCount <= Cardinality({i \in bOpen : bBucketName(i) = b.name})
        /\ bReport.summary.completedIssues
              = Cardinality({i \in bPassing : bIsCompleted(bIssues[i])})
        /\ bReport.summary.totalSprintIssues
              = Cardinality(bOpen) + bReport.summary.completedIssues

C2_Witness ==
    /\ bBuilt
    /\ \E i \in bPassing :
          /\ bIsCompleted(bIssues[i])
          /\ ProblemCategories(bIssues[i], bEff, BuilderNow) # {}
    /\ bOpen # {}
    /\ bReport.summary.completedIssues >= 1

\* C3: every non-completed issue passing the filter is in exactly one
\* byAssignee bucket, the one named by its display name or "Unassigned", and
\* in a category list iff the classifier gave it that category; each bucket's
\* staleCount and overdueCount count its issues of that category.
C3_OpenIssuesBucketed ==
    bBuilt =>
        /\ \A k, l \in 1..Len(bReport.byAssignee) :
              bReport.byAssignee[k].name = bReport.byAssignee[l].name => k = l
        /\ \A i \in bOpen :
              LET copies == Cardinality({j \in bOpen : bData(j) = bData(i)}) IN
              /\ \E k \in 1..Len(bReport.byAssignee) :
                    bReport.byAssignee[k].name = bBucketName(i)
              /\ \A k \in 1..Len(bReport.byAssignee) :
                    Occurrences(bReport.byAssignee[k].issues, bData(i))
                      = IF bReport.byAssignee[k].name = bBucketName(i) THEN copies ELSE 0
              /\ \A c \in AllCategories :
                    Occurrences(bCategoryList(c), bData(i))
                      = IF c \in bCats(i) THEN copies ELSE 0
        /\ \A c \in AllCategories :
              Len(bCategoryList(c)) = Cardinality({i \in bOpen : c \in bCats(i)})
        /\ \A k \in 1..Len(bReport.byAssignee) :
              LET b == bReport.byAssignee[k]
                  mine == {i \in bOpen : bBucketName(i) = b.name}
              IN /\ Len(b.issues) = Cardinality(mine)
                 /\ b.staleCount = Cardinality({i \in mine : "stale" \in bCats(i)})
                 /\ b.overdueCount = Cardinality({i \in mine : "overdue" \in bCats(i)})

C3_Witness ==
    /\ bBuilt
    /\ Len(bReport.byAssignee) >= 2
    /\ \E k \in 1..Len(bReport.byAssignee) :
          /\ bReport.byAssignee[k].name = "Unassigned"
          /\ Len(bReport.byAssignee[k].issues) >= 1
    /\ \E k \in 1..Len(bReport.byAssignee) :
          /\ bReport.byAssignee[k].staleCount >= 1
          /\ bReport.byAssignee[k].staleCount < Len(bReport.byAssignee[k].issues)
    /\ \E i \in bOpen : Cardinality(bCats(i)) >= 2

\* a is before b in the lexicographic order of digit strings, or equal to it
LexLeq(a, b) ==
    \/ a = b
    \/ \E k \in 1..Len(b) :
          /\ \A j \in 1..(k - 1) : j <= Len(a) /\ a[j] = b[j]
          /\ \/ k = Len(a) + 1
             \/ k <= Len(a) /\ a[k] < b[k]

\* C4: staleIssues is in non-increasing order of daysSinceUpdate, overdueIssues
\* in non-decreasing lexicographic order of duedate, and each is a permutation
\* of the issues the aggregation put in it.
C4_ListsSorted ==
    bBuilt =>
        /\ \A i \in 1..(Len(bReport.staleIssues) - 1) :
              bReport.staleIssues[i].daysSinceUpdate
                >= bReport.staleIssues[i + 1].daysSinceUpdate
        /\ \A i \in 1..(Len(bReport.overdueIssues) - 1) :
              LexLeq(bReport.overdueIssues[i].duedate, bReport.overdueIssues[i + 1].duedate)
        /\ \A c \in {"stale", "overdue"} :
              /\ Len(bCategoryList(c)) = Cardinality({i \in bOpen : c \in bCats(i)})
              /\ \A i \in bOpen :
                    c \in bCats(i) =>
                       Occurrences(bCategoryList(c), bData(i))
                         = Cardinality({j \in bOpen : bData(j) = bData(i)})

\* the aggregation order differs from the sorted order in both lists
C4_Witness ==
    /\ bBuilt
    /\ \E i, j \in bOpen :
          /\ i < j
          /\ "stale" \in bCats(i) /\ "stale" \in bCats(j)
          /\ bData(i).daysSinceUpdate < bData(j).daysSinceUpdate
    /\ \E i, j \in bOpen :
          /\ i < j
          /\ "overdue" \in bCats(i) /\ "overdue" \in bCats(j)
          /\ bData(i).duedate # bData(j).duedate
          /\ LexLeq(bData(j).duedate, bData(i).duedate)


\* the fetched issues of the filter's project, and the report built from
\* them alone with no filter
bKept == SelectSeq(bIssues, LAMBDA issue : issue.project = bProjectKey)
bAlone == BuildReport(BuilderSprint, bKept, "", bDaysStale, BuilderNow)

\* the keys of the issues a report shows in its lists and buckets
bShownKeys ==
    UNION { {bCategoryList(c)[j].key : j \in 1..Len(bCategoryList(c))} :
            c \in AllCategories }
    \cup UNION { {bReport.byAssignee[k].issues[j].key :
                     j \in 1..Len(bReport.byAssignee[k].issues)} :
                 k \in 1..Len(bReport.byAssignee) }

\* C19: with a projectKey filter P every issue of another project key, or of
\* none, is skipped entirely: it adds to no counter, no category list and no
\* assignee bucket, so that the report is the one of the issues of P alone;
\* summary.projectFiltered is true and summary.projectKey is P. Without a
\* filter projectFiltered is false, projectKey is null (here "") and no
\* issue is skipped.
C19_ProjectFilterSkipsEntirely ==
    /\ (bOut.done /\ bProjectKey # "") => bOut.ok = bAlone.ok
    /\ bBuilt =>
          /\ bReport.summary.projectFiltered = (bProjectKey # "")
          /\ bReport.summary.projectKey = bProjectKey
          /\ IF bProjectKey # ""
             THEN /\ bReport.summary.totalSprintIssues = Len(bKept)
                  /\ \A i \in 1..Len(bIssues) :
                        bIssues[i].project # bProjectKey =>
                            bIssues[i].key \notin bShownKeys
                  /\ bReport = [bAlone.report EXCEPT
                                   !.summary.projectFiltered = TRUE,
                                   !.summary.projectKey = bProjectKey]
             ELSE /\ bReport.summary.totalSprintIssues = Len(bIssues)
                  /\ \A i \in 1..Len(bIssues) :
                        ~bIsCompleted(bIssues[i]) => bIssues[i].key \in bShownKeys

\* an open issue of another project and one of no project are skipped
\* between issues of the filter's project
C19_Witness ==
    /\ bBuilt
    /\ bProjectKey = "WEB"
    /\ Len(bIssues) = 3
    /\ bIssues[1].key = "API-4"
    /\ bIssues[2].key = "WEB-2"
    /\ bIssues[3].key = "OPS-9"
    /\ bReport.summary.totalSprintIssues = 1
    /\ bReport.summary.projectFiltered
    /\ bShownKeys = {"WEB-2"}

\* the claim's four tests, from the fields of the fetched issue
bStaleTest(i) == bData(i).daysSinceUpdate > bEff
bOverdueTest(i) ==
    bIssues[i].duedate # <<>> /\ DueMs(bIssues[i].duedate) < BuilderNow
bUnassignedTest(i) == ~bIssues[i].hasAssignee
bBlockedTest(i) ==
    \/ \E l \in 1..Len(bIssues[i].labels) :
          bIssues[i].labels[l] \in {"blocked", "impediment"}
    \/ Includes(ToLowerCase(StatusOf(bIssues[i])), TxtBlocked)

bExpectedCategories(i) ==
    {c \in AllCategories :
        CASE c = "stale" -> bStaleTest(i)
          [] c = "overdue" -> bOverdueTest(i)
          [] c = "unassigned" -> bUnassignedTest(i)
          [] c = "blocked" -> bBlockedTest(i)}

\* C20: for a non-completed issue the category set is exactly: stale iff
\* daysSinceUpdate > daysStale, overdue iff a due date exists and lies
\* strictly before now, unassigned iff it has no assignee, blocked iff its
\* labels include 'blocked' or 'impediment' or its status contains 'blocked'
\* in any letter case; each test decides its category alone, and the report
\* lists the issue under exactly these categories.
C20_CategoriesAreTheFourTests ==
    bBuilt =>
        \A i \in bOpen :
            /\ bCats(i) = bExpectedCategories(i)
            /\ processIssue(bIssues[i], bEff, BuilderNow).categories
                  = bExpectedCategories(i)
            /\ \A c \in AllCategories :
                  (Occurrences(bCategoryList(c), bData(i)) > 0)
                      <=> (c \in bExpectedCategories(i))

\* an issue updated exactly daysStale days ago is blocked and not stale,
\* beside an issue that is stale, overdue and blocked at once
C20_Witness ==
    /\ bBuilt
    /\ bEff = 2
    /\ \E i \in bOpen :
          /\ bData(i).daysSinceUpdate = bEff
          /\ bCats(i) = {"blocked"}
    /\ \E i \in bOpen : bCats(i) = {"stale", "overdue", "blocked"}
    /\ \E i \in bOpen : bCats(i) = {"unassigned"}

----------------------------------------------------------------------------
(* Status classification over many status texts (SpecStatus): one issue    *)
(* whose status name is put together from a word in some spelling, a text  *)
(* before it and a text after it, or is missing, goes through the report   *)
(* builder, whose summary counts it in one of the three categories.        *)

StatusWords ==
    { <<>>,
      <<"d","o","n","e">>, <<"D","o","n","e">>, <<"D","O","N","E">>,
      <<"C","l","o","s","e","d">>, <<"c","L","o","S","e","D">>,
      <<"r","e","s","o","l","v","e","d">>, <<"R","E","S","O","L","V","E","D">>,
      <<"P","r","o","g","r","e","s","s">>, <<"p","r","o","g","r","e","s","s">>,
      <<"R","E","V","I","E","W">>, <<"T","e","s","t","i","n","g">>,
      <<"T","o"," ","D","o">>, <<"B","l","o","c","k","e","d">>,
      <<"U","n","k","n","o","w","n">> }

StatusPrefixes == { <<>>, <<"I","n"," ">>, <<"R","e","v","i","e","w"," ">> }

StatusSuffixes == { <<>>, <<"!">>, <<" ","Q","A">> }

StatusTexts ==
    { p \o w \o s : p \in StatusPrefixes, w \in StatusWords, s \in StatusSuffixes }

StatusIssue(text) ==
    [ (CHOOSE i \in IssuePool : i.key = "WEB-2") EXCEPT !.status = text ]

InitStatus ==
    /\ bIssues \in { <<StatusIssue(text)>> : text \in StatusTexts }
    /\ bProjectKey \in BuilderProjectKeys
    /\ bDaysStale \in BuilderDaysStale
    /\ bOut = NotBuilt
    /\ RetryIdle
    /\ MainIdle
    /\ ExtraIdle

SpecStatus == InitStatus /\ [][NextBuilder]_vars

\* the status name of the one issue, and how the summary counted it
sText == bIssues[1].status
sLower == ToLowerCase(IF sText = <<>> THEN TxtUnknown ELSE sText)
sContains(word) ==
    \E i \in 1..Len(sLower) :
        /\ i + Len(word) - 1 <= Len(sLower)
        /\ \A j \in 1..Len(word) : sLower[i + j - 1] = word[j]
sCounted ==
    <<bReport.summary.completedIssues,
      bReport.summary.inProgressIssues,
      bReport.summary.todoIssues>>
sIsCompletedWord ==
    \E word \in {TxtDone, TxtClosed, TxtResolved} :
        Len(sLower) = Len(word) /\ sContains(word)
sIsInProgressText ==
    \E word \in {TxtProgress, TxtReview, TxtTesting} : sContains(word)

\* C21: every status text is counted in exactly one of the three categories:
\* completed when, whatever its letters' case, it is the word done, closed or
\* resolved; otherwise in progress when it contains progress, review or
\* testing; and todo in every other case, a missing status included.
C21_StatusClassifiedInExactlyOneCategory ==
    bBuilt =>
        /\ bReport.summary.totalSprintIssues = 1
        /\ sCounted \in {<<1, 0, 0>>, <<0, 1, 0>>, <<0, 0, 1>>}
        /\ (sCounted = <<1, 0, 0>>) = sIsCompletedWord
        /\ (sCounted = <<0, 1, 0>>) = (~sIsCompletedWord /\ sIsInProgressText)
        /\ (sCounted = <<0, 0, 1>>) = (~sIsCompletedWord /\ ~sIsInProgressText)
        /\ sText = <<>> => sCounted = <<0, 0, 1>>

\* a mixed-case "cLoSeD" counted completed, with nothing before or after it
C21_Witness ==
    /\ bBuilt
    /\ sText = <<"c","L","o","S","e","D">>
    /\ sCounted = <<1, 0, 0>>

----------------------------------------------------------------------------
(* Errors (src/src/utils/errors.ts). An error value is a record             *)
(*   class       the constructor's name                                     *)
(*   code        the ErrorCode                                              *)
(*   statusCode  the HTTP status; 0 when undefined                          *)
(*   message     the message                                                *)

NoError == [class |-> "none", code |-> "", statusCode |-> 0, message |-> ""]

\* ApiError.fromAxiosError for a failed request whose response had this
\* status; status 0: no response at all (network failure, client timeout)
FromAxiosError(status) ==
    CASE status = 401 ->
           [class |-> "ApiError", code |-> "API_UNAUTHORIZED", statusCode |-> status,
            message |-> "Authentication failed"]
      [] status = 404 ->
           [class |-> "ApiError", code |-> "API_NOT_FOUND", statusCode |-> status,
            message |-> "Resource not found"]
      [] status = 429 ->
           [class |-> "ApiError", code |-> "API_RATE_LIMIT", statusCode |-> status,
            message |-> "Rate limit exceeded"]
      [] status = 408 \/ status = 504 ->
           [class |-> "ApiError", code |-> "API_TIMEOUT", statusCode |-> status,
            message |-> "Request timed out"]
      [] OTHER ->
           [class |-> "ApiError", code |-> "API_ERROR", statusCode |-> status,
            message |-> "API request failed"]

\* JiraError.sprintNotFound(boardId); the board id in the message is left out
SprintNotFound(boardId) ==
    [class |-> "JiraError", code |-> "JIRA_SPRINT_NOT_FOUND", statusCode |-> 404,
     message |-> CASE boardId = 1 -> "No active sprint found for board 1"
                   [] boardId = 2 -> "No active sprint found for board 2"
                   [] OTHER -> "No active sprint found for board N"]

\* the ValidationError of errors.ts (a BaseError)
BaseValidationError ==
    [class |-> "ValidationError", code |-> "VALIDATION_FAILED", statusCode |-> 400,
     message |-> "Input validation failed"]

\* a TypeError thrown by the runtime
TypeErrorValue ==
    [class |-> "TypeError", code |-> "", statusCode |-> 0,
     message |-> "Cannot read properties of undefined"]

\* error instanceof ApiError
IsApiError(e) == e.class \in {"ApiError", "JiraError", "SlackError"}

----------------------------------------------------------------------------
(* RetryHelper.retry (src/src/utils/errors.ts) as a step machine.           *)
(*   rOpts    [maxAttempts, initialDelay, maxDelay, factor, shouldRetry]    *)
(*   rPc      "attempt": at the head of the for loop;                       *)
(*            "sleep": awaiting the setTimeout promise;                     *)
(*            "returned" / "thrown": the call has ended                     *)
(*   rLog     the outcome of every invocation of operation, in order        *)
(*   rWaits   the delay of every setTimeout, in order                       *)

RetryMaxAttempts == 3
RetryInitialDelay == 1000
RetryMaxDelay == 10000
RetryFactor == 2

\* mutant: every client and server error status is retried
DefaultShouldRetryFrom400(error) ==
    IF IsApiError(error)
    THEN error.statusCode >= 400 \/ error.statusCode = 429 \/ error.code = "API_TIMEOUT"
    ELSE FALSE

\* the default value of options.shouldRetry
DefaultShouldRetry(error) ==
    IF IsApiError(error)
    THEN error.statusCode >= 500 \/ error.statusCode = 429 \/ error.code = "API_TIMEOUT"
    ELSE FALSE

\* options.shouldRetry: the default, or one of three caller-supplied predicates
ShouldRetryKinds == {"default", "always", "never", "firstOnly"}

ShouldRetry(kind, error, attempt) ==
    CASE kind = "default" -> DefaultShouldRetry(error)
      [] kind = "always" -> TRUE
      [] kind = "never" -> FALSE
      [] kind = "firstOnly" -> attempt = 1

\* mutant: the last attempt is recognised one iteration late
IsFinalFailureOffByOne(opts, error, attempt) ==
    attempt > opts.maxAttempts \/ ~ShouldRetry(opts.shouldRetry, error, attempt)

\* attempt === maxAttempts || !shouldRetry(error, attempt)
IsFinalFailure(opts, error, attempt) ==
    attempt = opts.maxAttempts \/ ~ShouldRetry(opts.shouldRetry, error, attempt)

\* mutant: the delay grows without a cap
NextDelayUncapped(opts, delay) == delay * opts.factor

\* mutant: Math.max in the place of Math.min
NextDelayAtLeastCap(opts, delay) ==
    IF delay * opts.factor > opts.maxDelay THEN delay * opts.factor ELSE opts.maxDelay

\* delay = Math.min(delay * factor, maxDelay)
NextDelay(opts, delay) ==
    IF delay * opts.factor < opts.maxDelay THEN delay * opts.factor ELSE opts.maxDelay

\* what one invocation of operation can do: return a value, or throw
\*   src "http": an upstream response of this status (0: no response),
\*               turned into an ApiError by the response interceptor;
\*   src "validation", "notFound", "runtime": an error thrown by the operation
Succeeded(v) == [ok |-> TRUE, value |-> v, src |-> "ok", status |-> 200, error |-> NoError]
Failed(src, status, e) == [ok |-> FALSE, value |-> "", src |-> src, status |-> status, error |-> e]

HttpStatuses == {0, 400, 404, 408, 429, 500, 503}

OpOutcomes ==
    {Succeeded(v) : v \in {"a", "b"}}
    \cup {Failed("http", st, FromAxiosError(st)) : st \in HttpStatuses}
    \cup {Failed("validation", 0, BaseValidationError),
          Failed("notFound", 0, SprintNotFound(1)),
          Failed("runtime", 0, TypeErrorValue)}

\* the largest maxAttempts tried
MaxTries == 3

BuilderIdle ==
    /\ bIssues = <<>>
    /\ bProjectKey = ""
    /\ bDaysStale = 0
    /\ bOut = NotBuilt

\* the options tried beside the defaults: a cap that the second delay
\* reaches, and a first delay above it
RetryInitialDelaysTried == {RetryInitialDelay, 3000}
RetryMaxDelaysTried == {RetryMaxDelay, 1500}
\* the factors tried: the default, and a delay that does not grow
RetryFactorsTried == {1, RetryFactor}

InitRetry ==
    /\ rOpts \in [ maxAttempts : 0..MaxTries,
                   initialDelay : RetryInitialDelaysTried,
                   maxDelay : RetryMaxDelaysTried,
                   factor : RetryFactorsTried,
                   shouldRetry : ShouldRetryKinds ]
    /\ rPc = "attempt"
    /\ rAttempt = 1
    /\ rDelay = rOpts.initialDelay
    /\ rLog = <<>>
    /\ rWaits = <<>>
    /\ rResult = Failed("none", 0, NoError)
    /\ BuilderIdle
    /\ MainIdle
    /\ ExtraIdle

\* return await operation()
RetryInvokeReturns ==
    /\ rPc = "attempt"
    /\ rAttempt <= rOpts.maxAttempts
    /\ \E o \in OpOutcomes :
          /\ o.ok
          /\ rLog' = Append(rLog, o)
          /\ rResult' = o
    /\ rPc' = "returned"
    /\ UNCHANGED <<rOpts, rAttempt, rDelay, rWaits, bVars, mVars, xVars>>

\* operation() throws: rethrow, or start the backoff wait
RetryInvokeThrows ==
    /\ rPc = "attempt"
    /\ rAttempt <= rOpts.maxAttempts
    /\ \E o \in OpOutcomes :
          /\ ~o.ok
          /\ rLog' = Append(rLog, o)
          /\ IF IsFinalFailure(rOpts, o.error, rAttempt)
             THEN rPc' = "thrown" /\ rResult' = o
             ELSE rPc' = "sleep" /\ rResult' = rResult
    /\ UNCHANGED <<rOpts, rAttempt, rDelay, rWaits, bVars, mVars, xVars>>

\* the timer fires: delay grows and the loop goes on with attempt + 1
RetryWake ==
    /\ rPc = "sleep"
    /\ rWaits' = Append(rWaits, rDelay)
    /\ rDelay' = NextDelay(rOpts, rDelay)
    /\ rAttempt' = rAttempt + 1
    /\ rPc' = "attempt"
    /\ UNCHANGED <<rOpts, rLog, rResult, bVars, mVars, xVars>>

\* the loop condition fails: throw lastError
RetryLoopExit ==
    /\ rPc = "attempt"
    /\ rAttempt > rOpts.maxAttempts
    /\ rPc' = "thrown"
    /\ rResult' = IF rLog = <<>> THEN Failed("none", 0, NoError) ELSE rLog[Len(rLog)]
    /\ UNCHANGED <<rOpts, rAttempt, rDelay, rLog, rWaits, bVars, mVars, xVars>>

\* the caller calls retry again with the same options: let delay = initialDelay
RetryCalledAgain ==
    /\ rPc \in {"returned", "thrown"}
    /\ rPc' = "attempt"
    /\ rAttempt' = 1
    /\ rDelay' = rOpts.initialDelay
    /\ rLog' = <<>>
    /\ rWaits' = <<>>
    /\ rResult' = Failed("none", 0, NoError)
    /\ UNCHANGED <<rOpts, bVars, mVars, xVars>>

NextRetry ==
    \/ RetryInvokeReturns
    \/ RetryInvokeThrows
    \/ RetryWake
    \/ RetryLoopExit
    \/ RetryCalledAgain

SpecRetry == InitRetry /\ [][NextRetry]_vars

----------------------------------------------------------------------------
(* Claims about RetryHelper.retry (SpecRetry).                              *)

rEnded == rPc \in {"returned", "thrown"}

\* invocation i failed, was not the last one allowed, and shouldRetry accepted it
rRetryable(i) ==
    /\ ~rLog[i].ok
    /\ i < rOpts.maxAttempts
    /\ ShouldRetry(rOpts.shouldRetry, rLog[i].error, i)

\* C9: with maxAttempts = n >= 1 the operation is invoked one attempt at a
\* time, at most n times, until the first success or the first final failure
\* (attempt n, or shouldRetry false); that value is returned or that very
\* error thrown at once, with no further invocation and no further delay.
C9_RetryEndsAtFirstFinalOutcome ==
    rOpts.maxAttempts >= 1 =>
        LET n == rOpts.maxAttempts
            len == Len(rLog)
        IN
        /\ len <= n
        /\ \A i \in 1..(len - 1) : rRetryable(i)
        /\ rPc = "attempt" => /\ len = rAttempt - 1
                              /\ len < n
                              /\ len >= 1 => rRetryable(len)
                              /\ Len(rWaits) = len
        /\ rPc = "sleep" => /\ len = rAttempt
                            /\ rRetryable(len)
                            /\ Len(rWaits) = len - 1
        /\ rPc = "returned" => /\ len >= 1
                               /\ rLog[len].ok
                               /\ rResult = rLog[len]
                               /\ Len(rWaits) = len - 1
        /\ rPc = "thrown" => /\ len >= 1
                             /\ ~rLog[len].ok
                             /\ ~rRetryable(len)
                             /\ rResult = rLog[len]
                             /\ Len(rWaits) = len - 1

\* two 503 failures, then success on the third and last attempt
C9_Witness ==
    /\ rOpts.maxAttempts = 3
    /\ rOpts.shouldRetry = "default"
    /\ rPc = "returned"
    /\ Len(rLog) = 3
    /\ rLog[1].status = 503 /\ rLog[2].status = 503
    /\ rResult = Succeeded("a")
    /\ rWaits = <<1000, 2000>>

\* invocation i was followed by another one
rRetried(i) == i < Len(rLog) \/ (i = Len(rLog) /\ rPc = "sleep")

rClassifiedTransient(o) ==
    /\ IsApiError(o.error)
    /\ \/ o.error.statusCode >= 500
       \/ o.error.statusCode = 429
       \/ o.error.code = "API_TIMEOUT"

\* C10 as stated: with the default shouldRetry only classified transient
\* errors are retried, and no 4xx response other than 429, no validation error
\* and no not-found error is ever retried.
C10_Original_No4xxRetried ==
    rOpts.shouldRetry = "default" =>
        \A i \in 1..Len(rLog) :
            /\ rRetried(i) => rClassifiedTransient(rLog[i])
            /\ ( \/ /\ rLog[i].src = "http"
                    /\ rLog[i].status \in 400..499
                    /\ rLog[i].status # 429
                 \/ rLog[i].src \in {"validation", "notFound"} )
               => ~rRetried(i)

\* C10 amended: the same, with 408 (classified as a timeout) also excepted
\* from the 4xx statuses that are never retried.
C10_Only408And429Among4xxRetried ==
    rOpts.shouldRetry = "default" =>
        \A i \in 1..Len(rLog) :
            /\ rRetried(i) => rClassifiedTransient(rLog[i])
            /\ ( \/ /\ rLog[i].src = "http"
                    /\ rLog[i].status \in 400..499
                    /\ rLog[i].status \notin {408, 429}
                 \/ rLog[i].src \in {"validation", "notFound"} )
               => /\ ~rRetried(i)
                  /\ rPc = "thrown"
                  /\ rResult = rLog[i]

\* a 503 is retried, the 404 that follows is thrown at once
C10_Witness ==
    /\ rOpts.shouldRetry = "default"
    /\ rOpts.maxAttempts = 3
    /\ Len(rLog) = 2
    /\ rLog[1].src = "http" /\ rLog[1].status = 503
    /\ rLog[2].src = "http" /\ rLog[2].status = 404
    /\ rPc = "thrown"

\* what the upstream did on a failed invocation: a 5xx or 429 response, a
\* timeout response, or no response at all because the client's own
\* timeout: 30000 (jira-handler.ts:58, 72) ended the request
rTransientUpstreamFailure(o) ==
    /\ ~o.ok
    /\ o.src = "http"
    /\ \/ o.status >= 500
       \/ o.status = 429
       \/ o.status = 408
       \/ o.status = 0

\* the failure of invocation i did not end the retry loop
rNotThrownAt(i) == i = Len(rLog) => rPc # "thrown"

\* C11: with the gateway's retry options (default shouldRetry, 3 attempts)
\* every transient upstream failure, the client timeout that has no HTTP
\* status included, is retried until success or until the 3 attempts are
\* used up; an error is thrown only on attempt 3.
C11_EveryTransientFailureRetried ==
    (rOpts.shouldRetry = "default" /\ rOpts.maxAttempts = RetryMaxAttempts) =>
        \A i \in 1..Len(rLog) :
            (rTransientUpstreamFailure(rLog[i]) /\ i < rOpts.maxAttempts)
                => rNotThrownAt(i)

\* the k-th delay of the backoff: d(1) = initialDelay and
\* d(k + 1) = min(d(k) * factor, maxDelay)
RECURSIVE rBackoff(_)
rBackoff(k) ==
    IF k <= 1 THEN rOpts.initialDelay
    ELSE LET grown == rBackoff(k - 1) * rOpts.factor
         IN IF grown <= rOpts.maxDelay THEN grown ELSE rOpts.maxDelay

\* C29: in every call of retry the wait after the k-th failed attempt is
\* d(k), where d(1) = initialDelay and d(k + 1) = min(d(k) * factor,
\* maxDelay): the delays are determined by the options alone, and every call
\* starts again from initialDelay.
C29_BackoffDelaysFollowOptions ==
    rPc # "idle" =>
        /\ Len(rWaits) <= Len(rLog)
        /\ \A k \in 1..Len(rWaits) :
              /\ ~rLog[k].ok
              /\ rWaits[k] = rBackoff(k)
        /\ rDelay = rBackoff(Len(rWaits) + 1)
        /\ rLog = <<>> => rDelay = rOpts.initialDelay

\* two waits of a call whose second delay is cut down to maxDelay
C29_Witness ==
    /\ rOpts.initialDelay = RetryInitialDelay
    /\ rOpts.maxDelay = 1500
    /\ rPc = "returned"
    /\ rWaits = <<1000, 1500>>
    /\ rDelay = 1500


----------------------------------------------------------------------------
(* CacheManager (src/src/utils/cache.ts).                                   *)
(* A store is the Map's entries in insertion order, each [key, data,        *)
(* expiry]; time is in seconds. A key is the sequence of the parts that     *)
(* the code joins with ':'.                                                 *)

\* this.maxSize of sprintCache (1000 in the source), scaled down
MaxSize == 3

SprintTTL == 600
SprintIssuesTTL == 300
ReportTTL == 300

\* CacheFactory.getCache('sprint', { ttl: 600 })
SprintCacheConfig == [prefix |-> "sprint", ttl |-> 600, maxSize |-> MaxSize]

CacheKeySprint(boardId) == <<"sprint", boardId>>
CacheKeySprintIssues(sprintId) == <<"sprint-issues", sprintId>>

CacheKeyStandupReport(boardId, projectKey) ==
    IF projectKey # "" THEN <<"standup", boardId, projectKey>>
    ELSE <<"standup", boardId>>

\* the empty string, as a key or a prefix, is the empty sequence of parts
GetFullKey(config, key) ==
    IF config.prefix # "" THEN <<config.prefix>> \o key ELSE key

IndexOfKey(store, fullKey) ==
    IF \E i \in 1..Len(store) : store[i].key = fullKey
    THEN CHOOSE i \in 1..Len(store) : store[i].key = fullKey
    ELSE 0

RemoveAt(store, i) == SubSeq(store, 1, i - 1) \o SubSeq(store, i + 1, Len(store))

\* mutant: the entry inserted first is evicted, whatever its expiry
EvictOldestFirstInserted(store) ==
    IF store = <<>> THEN store ELSE RemoveAt(store, 1)

\* evictOldest: the first entry, in insertion order, of the smallest expiry;
\* it is deleted if (oldestKey), that is unless its full key is ''
EvictOldest(store) ==
    IF store = <<>> THEN store
    ELSE LET oldest == CHOOSE i \in 1..Len(store) :
                           \A j \in 1..Len(store) :
                               \/ store[j].expiry > store[i].expiry
                               \/ store[j].expiry = store[i].expiry /\ j >= i
         IN IF store[oldest].key # <<>> THEN RemoveAt(store, oldest) ELSE store

\* mutant: the ttl is added to Date.now() as milliseconds, not seconds
CacheSetTtlAsMillis(store, config, key, data, ttlSeconds, t) ==
    LET fullKey == GetFullKey(config, key)
        room == IF Len(store) >= config.maxSize /\ IndexOfKey(store, fullKey) = 0
                THEN EvictOldest(store) ELSE store
        entry == [key |-> fullKey, data |-> data, expiry |-> t]
        at == IndexOfKey(room, fullKey)
    IN IF at = 0 THEN Append(room, entry) ELSE [room EXCEPT ![at] = entry]

\* mutant: an entry that the store holds is not overwritten
CacheSetKeepingExisting(store, config, key, data, ttlSeconds, t) ==
    LET ttl == IF ttlSeconds = 0 THEN config.ttl ELSE ttlSeconds
        fullKey == GetFullKey(config, key)
        room == IF Len(store) >= config.maxSize /\ IndexOfKey(store, fullKey) = 0
                THEN EvictOldest(store) ELSE store
        entry == [key |-> fullKey, data |-> data, expiry |-> t + ttl]
    IN IF IndexOfKey(room, fullKey) = 0 THEN Append(room, entry) ELSE room

\* set(key, data, ttlSeconds) at time t
CacheSet(store, config, key, data, ttlSeconds, t) ==
    LET ttl == IF ttlSeconds = 0 THEN config.ttl ELSE ttlSeconds
        fullKey == GetFullKey(config, key)
        room == IF Len(store) >= config.maxSize /\ IndexOfKey(store, fullKey) = 0
                THEN EvictOldest(store) ELSE store
        entry == [key |-> fullKey, data |-> data, expiry |-> t + ttl]
        at == IndexOfKey(room, fullKey)
    IN IF at = 0 THEN Append(room, entry) ELSE [room EXCEPT ![at] = entry]

\* mutant: the expiry of an entry is never looked at
CacheGetNoExpiry(store, config, key, t) ==
    LET at == IndexOfKey(store, GetFullKey(config, key)) IN
    IF at = 0 THEN [store |-> store, hit |-> FALSE, data |-> <<>>]
    ELSE [store |-> store, hit |-> TRUE, data |-> store[at].data]

\* mutant: an expired entry is reported absent but left in the store
CacheGetKeepingExpired(store, config, key, t) ==
    LET at == IndexOfKey(store, GetFullKey(config, key)) IN
    IF at = 0 \/ t > store[at].expiry
    THEN [store |-> store, hit |-> FALSE, data |-> <<>>]
    ELSE [store |-> store, hit |-> TRUE, data |-> store[at].data]

\* get(key) at time t: the store afterwards and the value, if any
CacheGet(store, config, key, t) ==
    LET at == IndexOfKey(store, GetFullKey(config, key)) IN
    IF at = 0 THEN [store |-> store, hit |-> FALSE, data |-> <<>>]
    ELSE IF t > store[at].expiry
    THEN [store |-> RemoveAt(store, at), hit |-> FALSE, data |-> <<>>]
    ELSE [store |-> store, hit |-> TRUE, data |-> store[at].data]

----------------------------------------------------------------------------
(* The gateway: getActiveSprint and getSprintTickets. The upstream tracker  *)
(* is up = [sprints, issues, script]: per board the active sprints it       *)
(* lists, per sprint its issues, and how it answers the requests of the     *)
(* call at hand: the HTTP status of each successive attempt (200: success), *)
(* the last status standing for every further attempt.                      *)

\* maxResults of a page request (50 in the source), scaled down
PageSize == 1

FetchScripts == {<<200>>, <<503, 404>>}

GatewayRetryOptions ==
    [ maxAttempts |-> RetryMaxAttempts,
      initialDelay |-> RetryInitialDelay,
      maxDelay |-> RetryMaxDelay,
      factor |-> RetryFactor,
      shouldRetry |-> "default" ]

\* RetryHelper.retry run to its end against a script: the outcome and the
\* number of requests made
RECURSIVE RetryRun(_, _, _)
RetryRun(opts, script, attempt) ==
    LET status == script[IF attempt <= Len(script) THEN attempt ELSE Len(script)]
        error == FromAxiosError(status)
    IN IF status = 200
       THEN [ok |-> TRUE, error |-> NoError, requests |-> attempt]
       ELSE IF IsFinalFailure(opts, error, attempt)
       THEN [ok |-> FALSE, error |-> error, requests |-> attempt]
       ELSE RetryRun(opts, script, attempt + 1)

\* getActiveSprint(boardId)
GetActiveSprint(store, t, up, boardId) ==
    LET got == CacheGet(store, SprintCacheConfig, CacheKeySprint(boardId), t) IN
    IF got.hit
    THEN {[ ok |-> TRUE, found |-> TRUE, sprint |-> got.data, cached |-> TRUE,
            store |-> got.store, error |-> NoError, requests |-> 0 ]}
    ELSE { LET r == RetryRun(GatewayRetryOptions, up.script, 1)
               values == up.sprints[boardId]
           IN IF ~r.ok
              THEN [ ok |-> FALSE, found |-> FALSE, sprint |-> <<>>, cached |-> FALSE,
                     store |-> got.store, error |-> r.error, requests |-> r.requests ]
              ELSE IF values = <<>>
              THEN [ ok |-> TRUE, found |-> FALSE, sprint |-> <<>>, cached |-> FALSE,
                     store |-> got.store, error |-> NoError, requests |-> r.requests ]
              ELSE [ ok |-> TRUE, found |-> TRUE, sprint |-> values[1], cached |-> FALSE,
                     store |-> CacheSet(got.store, SprintCacheConfig,
                                        CacheKeySprint(boardId), values[1], SprintTTL, t),
                     error |-> NoError, requests |-> r.requests ] }

\* getSprintTicketsPaginated drained by getSprintTickets' for-await loop
RECURSIVE FetchPages(_, _, _, _, _)
FetchPages(up, sprintId, startAt, allIssues, requests) ==
    LET r == RetryRun(GatewayRetryOptions, up.script, 1)
        list == up.issues[sprintId]
        upTo == IF startAt + PageSize < Len(list)
                THEN startAt + PageSize ELSE Len(list)
        batch == SubSeq(list, startAt + 1, upTo)
        total == Len(list)
    IN IF ~r.ok
       THEN [ ok |-> FALSE, issues |-> <<>>, error |-> r.error,
              requests |-> requests + r.requests ]
       ELSE IF startAt + PageSize < total
       THEN FetchPages(up, sprintId, startAt + PageSize, allIssues \o batch,
                       requests + r.requests)
       ELSE [ ok |-> TRUE, issues |-> allIssues \o batch, error |-> NoError,
              requests |-> requests + r.requests ]

\* getSprintTickets(sprintId)
GetSprintTickets(store, t, up, sprintId) ==
    LET got == CacheGet(store, SprintCacheConfig, CacheKeySprintIssues(sprintId), t) IN
    IF got.hit
    THEN {[ ok |-> TRUE, issues |-> got.data, cached |-> TRUE,
            store |-> got.store, error |-> NoError, requests |-> 0 ]}
    ELSE { LET f == FetchPages(up, sprintId, 0, <<>>, 0) IN
           IF f.ok
           THEN [ ok |-> TRUE, issues |-> f.issues, cached |-> FALSE,
                  store |-> CacheSet(got.store, SprintCacheConfig,
                                     CacheKeySprintIssues(sprintId), f.issues,
                                     SprintIssuesTTL, t),
                  error |-> NoError, requests |-> f.requests ]
           ELSE [ ok |-> FALSE, issues |-> <<>>, cached |-> FALSE,
                  store |-> got.store, error |-> f.error, requests |-> f.requests ] }

----------------------------------------------------------------------------
(* handleJiraTool (src/src/jira-handler.ts): the sprint tools. A call       *)
(* yields the set of its possible outcomes                                  *)
(*   [store, resp, requests, stage, sprintCached, issuesCached]             *)
(* where stage names how far the handler got: "invalid", "hit", "sprint"    *)
(* (the sprint lookup failed), "nosprint", "issues" (the issue fetch        *)
(* failed), "build" (the builder threw), "done".                            *)

\* the ValidationError of validation.ts, thrown by validate(): a plain Error
InputValidationError ==
    [class |-> "Error", code |-> "", statusCode |-> 0,
     message |-> "Input validation failed"]

\* new ApiError('Failed to generate report data', INTERNAL_ERROR, 500)
ReportDataError ==
    [class |-> "ApiError", code |-> "INTERNAL_ERROR", statusCode |-> 500,
     message |-> "Failed to generate report data"]

\* an Error thrown by generateStandupPDF
RenderError ==
    [class |-> "Error", code |-> "", statusCode |-> 0,
     message |-> "PDF generation failed"]

\* error instanceof BaseError
IsBaseError(e) == e.class \in {"ApiError", "JiraError", "SlackError", "ValidationError"}

\* ErrorHandler.handle(error, tool); the error was constructed at time t
ErrorHandlerHandle(e, tool, t) ==
    IF IsBaseError(e)
    THEN [ error |-> e.message, tool |-> tool, status |-> e.statusCode,
           details |-> [code |-> e.code, timestamp |-> t] ]
    ELSE [ error |-> e.message, tool |-> tool, status |-> 500,
           details |-> "An unexpected error occurred" ]

\* { content: [{ type: 'text', text: JSON.stringify(value, null, 2) }] }:
\* the text determines the value and the value the text
TextResponse(value) == [type |-> "text", json |-> value]

\* JSON.parse(response.content[0].text)
JsonParse(resp) == resp.json

\* reportData.error: only the body of an error response has the property
HasErrorProperty(value) == "error" \in DOMAIN value

WellFormedProjectKeys == {"WEB", "API"}

\* DailyStandupReportSchema / GenerateStandupPDFSchema; projectKey "" and
\* daysStale 0 stand for an absent property
ValidReportArgs(args) ==
    /\ args.boardId > 0
    /\ args.projectKey \in {""} \cup WellFormedProjectKeys
    /\ args.daysStale \in 0..30

\* GetSprintIssuesSchema
ValidBoardArgs(args) == args.boardId > 0

\* inner and pdf are for the PDF tool: the answer of the report tool it
\* called, and how its own work ended ("none": not the PDF tool)
Outcome(store, resp, requests, stage, sprintCached, issuesCached) ==
    [ store |-> store, resp |-> resp, inner |-> resp, pdf |-> "none",
      requests |-> requests, stage |-> stage,
      sprintCached |-> sprintCached, issuesCached |-> issuesCached ]

\* the catch block of handleJiraTool
Caught(store, e, tool, t, requests, stage, sprintCached, issuesCached) ==
    Outcome(store, TextResponse(ErrorHandlerHandle(e, tool, t)), requests, stage,
            sprintCached, issuesCached)

\* the clock of the report builder, in milliseconds, at second t
NowMs(t) == BuilderNow + 1000 * t

\* the key of the report cache entry of a call (line 526)
ReportCacheKey(args) == CacheKeyStandupReport(args.boardId, args.projectKey)

\* lines 548-650: the sprint is known and its issues have been asked for
ReportWithIssues(a, i, t, args) ==
    LET tool == "jira_daily_standup_report"
        requests == a.requests + i.requests
        b == BuildReport(a.sprint, i.issues, args.projectKey, args.daysStale, NowMs(t))
    IN IF ~i.ok
       THEN Caught(i.store, i.error, tool, t, requests, "issues", a.cached, FALSE)
       ELSE IF ~b.ok
       THEN Caught(i.store, TypeErrorValue, tool, t, requests, "build", a.cached, i.cached)
       ELSE Outcome(CacheSet(i.store, SprintCacheConfig, ReportCacheKey(args),
                             b.report, ReportTTL, t),
                    TextResponse(b.report), requests, "done", a.cached, i.cached)

\* mutant: a board without an active sprint gets an empty report
ReportWithSprintEmptyReport(a, t, up, args) ==
    LET tool == "jira_daily_standup_report" IN
    IF ~a.ok
    THEN {Caught(a.store, a.error, tool, t, a.requests, "sprint", FALSE, FALSE)}
    ELSE IF ~a.found
    THEN {ReportWithIssues([a EXCEPT !.sprint = [id |-> 0, name |-> ""]],
                           [ ok |-> TRUE, issues |-> <<>>, cached |-> FALSE,
                             store |-> a.store, error |-> NoError, requests |-> 0 ],
                           t, args)}
    ELSE { ReportWithIssues(a, i, t, args) :
              i \in GetSprintTickets(a.store, t, up, a.sprint.id) }

\* lines 538-548: the answer of getActiveSprint is in
ReportWithSprint(a, t, up, args) ==
    LET tool == "jira_daily_standup_report" IN
    IF ~a.ok
    THEN {Caught(a.store, a.error, tool, t, a.requests, "sprint", FALSE, FALSE)}
    ELSE IF ~a.found
    THEN {Caught(a.store, SprintNotFound(args.boardId), tool, t, a.requests,
                 "nosprint", FALSE, FALSE)}
    ELSE { ReportWithIssues(a, i, t, args) :
              i \in GetSprintTickets(a.store, t, up, a.sprint.id) }

\* mutant: only a call that leaves daysStale out is answered from the cache
DailyStandupReportDefaultCached(store, t, up, args) ==
    LET tool == "jira_daily_standup_report"
        got == CacheGet(store, SprintCacheConfig, ReportCacheKey(args), t)
    IN IF ~ValidReportArgs(args)
       THEN {Caught(store, InputValidationError, tool, t, 0, "invalid", FALSE, FALSE)}
       ELSE IF got.hit /\ args.daysStale = 0
       THEN {Outcome(got.store, TextResponse(got.data), 0, "hit", FALSE, FALSE)}
       ELSE UNION { ReportWithSprint(a, t, up, args) :
                       a \in GetActiveSprint(got.store, t, up, args.boardId) }

\* case 'jira_daily_standup_report'
DailyStandupReport(store, t, up, args) ==
    LET tool == "jira_daily_standup_report"
        got == CacheGet(store, SprintCacheConfig, ReportCacheKey(args), t)
    IN IF ~ValidReportArgs(args)
       THEN {Caught(store, InputValidationError, tool, t, 0, "invalid", FALSE, FALSE)}
       ELSE IF got.hit
       THEN {Outcome(got.store, TextResponse(got.data), 0, "hit", FALSE, FALSE)}
       ELSE UNION { ReportWithSprint(a, t, up, args) :
                       a \in GetActiveSprint(got.store, t, up, args.boardId) }

\* the reportSummary of the PDF tool's answer
ReportSummary(reportData) ==
    [ sprint |-> reportData.sprintName,
      date |-> reportData.date,
      totalIssues |-> reportData.summary.totalSprintIssues,
      overdueCount |-> Len(reportData.overdueIssues),
      staleCount |-> Len(reportData.staleIssues) ]

\* mutant: the renderer is invoked whatever the report tool answered
GenerateStandupPdfUnchecked(store, t, up, args, rendered) ==
    LET tool == "jira_generate_standup_pdf" IN
    IF ~ValidReportArgs(args)
    THEN {Caught(store, InputValidationError, tool, t, 0, "invalid", FALSE, FALSE)}
    ELSE { IF ~rendered
           THEN [o EXCEPT !.resp = TextResponse(ErrorHandlerHandle(RenderError, tool, t)),
                          !.pdf = "failed"]
           ELSE [o EXCEPT
                   !.pdf = "rendered",
                   !.resp = TextResponse(
                               [ success |-> TRUE,
                                 message |-> "PDF report generated successfully",
                                 filePath |-> "standup.pdf" ])]
           : o \in DailyStandupReport(store, t, up,
                       [args EXCEPT !.daysStale = EffectiveDaysStale(@)]) }

\* case 'jira_generate_standup_pdf'; rendered: generateStandupPDF returns
GenerateStandupPdf(store, t, up, args, rendered) ==
    LET tool == "jira_generate_standup_pdf" IN
    IF ~ValidReportArgs(args)
    THEN {Caught(store, InputValidationError, tool, t, 0, "invalid", FALSE, FALSE)}
    ELSE { LET reportData == JsonParse(o.resp)
               failed(e, pdf) ==
                   [o EXCEPT !.resp = TextResponse(ErrorHandlerHandle(e, tool, t)),
                             !.pdf = pdf]
           IN IF HasErrorProperty(reportData) THEN failed(ReportDataError, "nodata")
              ELSE IF ~rendered THEN failed(RenderError, "failed")
              ELSE [o EXCEPT
                      !.pdf = "rendered",
                      !.resp = TextResponse(
                                  [ success |-> TRUE,
                                    message |-> "PDF report generated successfully",
                                    filePath |-> "standup.pdf",
                                    reportSummary |-> ReportSummary(reportData) ])]
           : o \in DailyStandupReport(store, t, up,
                       [args EXCEPT !.daysStale = EffectiveDaysStale(@)]) }

\* the names of ObjectPrototypeKeys as status texts
ObjectPrototypeTexts ==
    { <<"c","o","n","s","t","r","u","c","t","o","r">>,
      <<"t","o","S","t","r","i","n","g">>,
      <<"v","a","l","u","e","O","f">>,
      <<"h","a","s","O","w","n","P","r","o","p","e","r","t","y">>,
      <<"_","_","p","r","o","t","o","_","_">> }

\* the name whose assignment Object.prototype's setter takes: a text assigned
\* to it is dropped and the object gets no property of its own
ProtoSetterKey == "__proto__"
ProtoSetterText == <<"_","_","p","r","o","t","o","_","_">>

\* obj[name] = (obj[name] || 0) + 1 on a plain object, for each name in turn.
\* A name that Object's prototype defines (inherited) reads as truthy, so
\* the value stored is a text with n times "1" at its end, not a number;
\* the name in setter stores nothing
RECURSIVE CountNames(_, _, _, _)
CountNames(counts, names, inherited, setter) ==
    IF names = <<>> THEN counts
    ELSE LET name == Head(names)
             at == BucketIndex(counts, name)
         IN CountNames(IF name = setter THEN counts
                       ELSE IF at = 0
                       THEN Append(counts, [ name |-> name,
                                             isNumber |-> name \notin inherited,
                                             n |-> 1 ])
                       ELSE [counts EXCEPT ![at].n = @ + 1],
                       Tail(names), inherited, setter)

CountCategory(issues, category) ==
    Cardinality({ j \in 1..Len(issues) :
                     categorizeStatus(StatusOf(issues[j])) = category })

\* lines 470-514 of case 'jira_get_sprint_issues'
SprintIssuesAnswer(sprint, tasks) ==
    [ sprintName |-> sprint.name,
      totalIssues |-> Len(tasks),
      byStatus |-> CountNames(<<>>, [j \in 1..Len(tasks) |-> StatusOf(tasks[j])],
                             ObjectPrototypeTexts, ProtoSetterText),
      byAssignee |-> CountNames(<<>>, [j \in 1..Len(tasks) |->
                                          IssueDataOf(tasks[j], 0).assignee],
                               ObjectPrototypeKeys, ProtoSetterKey),
      summary |-> [ totalSprintIssues |-> Len(tasks),
                    completedIssues |-> CountCategory(tasks, "completed"),
                    inProgressIssues |-> CountCategory(tasks, "inProgress"),
                    todoIssues |-> Cardinality({ j \in 1..Len(tasks) :
                                      categorizeStatus(StatusOf(tasks[j]))
                                         \notin {"completed", "inProgress"} }),
                    projectFiltered |-> FALSE,
                    projectKey |-> "" ] ]

\* case 'jira_get_sprint_issues'
GetSprintIssues(store, t, up, args) ==
    LET tool == "jira_get_sprint_issues" IN
    IF ~ValidBoardArgs(args)
    THEN {Caught(store, InputValidationError, tool, t, 0, "invalid", FALSE, FALSE)}
    ELSE UNION {
           IF ~a.ok
           THEN {Caught(a.store, a.error, tool, t, a.requests, "sprint", FALSE, FALSE)}
           ELSE IF ~a.found
           THEN {Caught(a.store, SprintNotFound(args.boardId), tool, t, a.requests,
                        "nosprint", FALSE, FALSE)}
           ELSE { IF ~i.ok
                  THEN Caught(i.store, i.error, tool, t, a.requests + i.requests,
                              "issues", a.cached, FALSE)
                  ELSE Outcome(i.store, TextResponse(SprintIssuesAnswer(a.sprint, i.issues)),
                               a.requests + i.requests, "done", a.cached, i.cached)
                  : i \in GetSprintTickets(a.store, t, up, a.sprint.id) }
           : a \in GetActiveSprint(store, t, up, args.boardId) }

----------------------------------------------------------------------------
(* Spec: the server answering sprint tool calls one at a time, while time   *)
(* passes and the issues of the sprint change upstream, once.               *)
(*   cache   sprintCache                                                    *)
(*   now     Date.now(), in seconds                                         *)
(*   jira    the upstream tracker                                           *)
(*   last    the report or PDF call answered in the last step, if that was  *)
(*           one: its arguments, how far it got, the upstream requests it   *)
(*           made, and whether a report stored for its key had expired      *)
(*           before it                                                      *)
(*   built   history: per board and project key, the report last built and  *)
(*           stored, and when; once its time to live is over only that      *)
(*           fact is kept                                                   *)

\* the seconds one step of the clock takes, and the last second looked at
TickStep == 200
MaxNow == 600

ActiveSprint42 == BuilderSprint

IssueOfKey(key) == CHOOSE issue \in IssuePool : issue.key = key

IssuesEarly == <<IssueOfKey("WEB-2"), IssueOfKey("API-5")>>
IssuesLate == <<IssueOfKey("WEB-3")>>

\* board 1 runs sprint 7, board 2 has no active sprint
JiraStates ==
    { [ sprints |-> (1 :> <<ActiveSprint42>> @@ 2 :> <<>>),
        issues |-> (7 :> list) ] : list \in {IssuesEarly, IssuesLate} }

\* the tracker as a call finds it
Upstream(script) == [sprints |-> jira.sprints, issues |-> jira.issues, script |-> script]

CallBoards == {0, 1, 2}
CallProjectKeys == {"", "WEB"}
CallDaysStale == {0, 1}

\* every choice of project key and staleness for the board with a sprint
ReportCalls ==
    { args \in [ boardId : CallBoards, projectKey : CallProjectKeys,
                 daysStale : CallDaysStale ] :
         args.boardId = 1 \/ (args.projectKey = "" /\ args.daysStale = 0) }

\* the PDF tool is called for the whole sprint, with every staleness
PdfCalls == {args \in ReportCalls : args.boardId = 1 /\ args.projectKey = ""}

ReportKeys == {1} \X CallProjectKeys

NoText == [type |-> "text", json |-> <<>>]
NoReport == [has |-> FALSE, over |-> FALSE, text |-> NoText, at |-> 0]
ReportOver == [has |-> TRUE, over |-> TRUE, text |-> NoText, at |-> 0]

\* the entry that the source stores a report under, spelt out
StandupEntryKey(k) ==
    IF k[2] = "" THEN <<"sprint", "standup", k[1]>>
    ELSE <<"sprint", "standup", k[1], k[2]>>

StoredFresh(store, fullKey, t) ==
    \E i \in 1..Len(store) : store[i].key = fullKey /\ t <= store[i].expiry

StoredData(store, fullKey) ==
    store[CHOOSE i \in 1..Len(store) : store[i].key = fullKey].data

\* what the cache holds, unexpired, of the sprint of a board and its issues
Snapshot(store, t, boardId) ==
    LET sprintKey == <<"sprint", "sprint", boardId>>
        sprintFresh == StoredFresh(store, sprintKey, t)
        sprint == IF sprintFresh THEN StoredData(store, sprintKey) ELSE <<>>
        issuesKey == <<"sprint", "sprint-issues", IF sprintFresh THEN sprint.id ELSE 0>>
        issuesFresh == sprintFresh /\ StoredFresh(store, issuesKey, t)
    IN [ sprintFresh |-> sprintFresh, sprint |-> sprint,
         issuesFresh |-> issuesFresh,
         issues |-> IF issuesFresh THEN StoredData(store, issuesKey) ELSE <<>> ]

NoCall ==
    [ tool |-> "none", boardId |-> 0, projectKey |-> "",
      stage |-> "invalid", pdf |-> "none", requests |-> 0, afterExpiry |-> FALSE ]

Init ==
    /\ cache = <<>>
    /\ now = 0
    /\ jira = [ sprints |-> (1 :> <<ActiveSprint42>> @@ 2 :> <<>>),
                issues |-> (7 :> IssuesEarly) ]
    /\ last = NoCall
    /\ built = [k \in ReportKeys |-> NoReport]
    /\ BuilderIdle
    /\ RetryIdle
    /\ ExtraIdle

\* a report was stored and its time to live is over
Expired(stored, t) == stored.has /\ (stored.over \/ t > stored.at + ReportTTL)

\* a report was stored and its time to live is not over
Recent(stored, t) == stored.has /\ ~stored.over /\ t <= stored.at + ReportTTL

\* the cache holds an entry under the key that the source stores a report under
Held(store, k) == \E i \in 1..Len(store) : store[i].key = StandupEntryKey(k)

\* the history after a call: the report it stored
BuiltAfter(tool, args, o) ==
    [ k \in ReportKeys |->
        IF /\ tool \in {"report", "pdf"}
           /\ k = <<args.boardId, args.projectKey>>
           /\ o.stage = "done"
        THEN [has |-> TRUE, over |-> FALSE, text |-> o.inner, at |-> now]
        ELSE built[k] ]

Answered(tool, args, o) ==
    /\ cache' = o.store
    /\ last' = IF tool = "issues" THEN NoCall
               ELSE [ tool |-> tool, boardId |-> args.boardId,
                      projectKey |-> args.projectKey,
                      stage |-> o.stage, pdf |-> o.pdf, requests |-> o.requests,
                      afterExpiry |->
                          /\ <<args.boardId, args.projectKey>> \in ReportKeys
                          /\ Expired(built[<<args.boardId, args.projectKey>>], now) ]
    /\ built' = BuiltAfter(tool, args, o)
    /\ UNCHANGED <<now, jira, bVars, rVars, xVars>>

CallDailyStandupReport ==
    \E args \in ReportCalls, script \in FetchScripts :
        \E o \in DailyStandupReport(cache, now, Upstream(script), args) :
            Answered("report", args, o)

CallGenerateStandupPdf ==
    \E args \in PdfCalls, rendered \in BOOLEAN :
        \E o \in GenerateStandupPdf(cache, now, Upstream(<<200>>), args, rendered) :
            Answered("pdf", args, o)

CallGetSprintIssues ==
    \E boardId \in CallBoards \ {0}, script \in FetchScripts :
        LET args == [boardId |-> boardId, projectKey |-> "", daysStale |-> 0] IN
        \E o \in GetSprintIssues(cache, now, Upstream(script), args) :
            Answered("issues", args, o)

\* cleanup(), run by the interval timer: expired entries are deleted
Cleanup ==
    /\ \E i \in 1..Len(cache) : now > cache[i].expiry
    /\ cache' = SelectSeq(cache, LAMBDA entry : ~(now > entry.expiry))
    /\ last' = NoCall
    /\ UNCHANGED <<now, jira, built, bVars, rVars, xVars>>

Tick ==
    /\ now + TickStep <= MaxNow
    /\ now' = now + TickStep
    /\ last' = NoCall
    /\ built' = [k \in ReportKeys |->
                    IF Expired(built[k], now') THEN ReportOver ELSE built[k]]
    /\ UNCHANGED <<cache, jira, bVars, rVars, xVars>>

UpstreamChange ==
    /\ jira.issues[7] = IssuesEarly
    /\ jira' \in JiraStates \ {jira}
    /\ last' = NoCall
    /\ UNCHANGED <<cache, now, built, bVars, rVars, xVars>>

Next ==
    \/ CallDailyStandupReport
    \/ CallGenerateStandupPdf
    \/ CallGetSprintIssues
    \/ Cleanup
    \/ Tick
    \/ UpstreamChange

Spec == Init /\ [][Next]_vars

----------------------------------------------------------------------------
(* Claims about the report cache (Spec). They say what a call made in the   *)
(* state at hand is answered, for every reachable state.                    *)

\* the answers of the report tool called now for key k = <<boardId, projectKey>>
ReportNow(k, daysStale, script) ==
    DailyStandupReport(cache, now, Upstream(script),
                       [boardId |-> k[1], projectKey |-> k[2], daysStale |-> daysStale])

\* the answers of the PDF tool called now
PdfNow(k, daysStale, script, rendered) ==
    GenerateStandupPdf(cache, now, Upstream(script),
                       [boardId |-> k[1], projectKey |-> k[2], daysStale |-> daysStale],
                       rendered)

\* the report built now from what the upstream holds
FreshText(k, daysStale) ==
    TextResponse(BuildReport(jira.sprints[k[1]][1], jira.issues[jira.sprints[k[1]][1].id],
                             k[2], daysStale, NowMs(now)).report)

lastKey == <<last.boardId, last.projectKey>>

\* C5 as the specification states it: within 300 seconds of the call that
\* built a report, every call with the same board and project key returns
\* the text of that call and makes no upstream request, whatever was called
\* in between.
C5_Original_RepeatWithinTtlIdentical ==
    \A k \in ReportKeys, d \in CallDaysStale, script \in FetchScripts :
        Recent(built[k], now) =>
            \A o \in ReportNow(k, d, script) :
                o.resp = built[k].text /\ o.requests = 0

\* C5, amended: within 300 seconds of the call that built a report, and
\* while the entry it stored is still in the cache (storing a new key in the
\* full cache evicts the entry that expires soonest), every call with the
\* same board and project key is answered from the cache: it returns the
\* text of the building call, makes no upstream request and leaves the cache
\* as it is.
C5_RepeatWithinTtlIdenticalWhileHeld ==
    \A k \in ReportKeys, d \in CallDaysStale, script \in FetchScripts :
        Recent(built[k], now) /\ Held(cache, k) =>
            \A o \in ReportNow(k, d, script) :
                /\ o.stage = "hit"
                /\ o.resp = built[k].text
                /\ o.requests = 0
                /\ o.store = cache

\* a call was answered from the cache later than its report was built, a
\* report for another key having been built in between, and the upstream
\* no longer yields that text
C5_Witness ==
    /\ last.tool = "report"
    /\ last.stage = "hit"
    /\ built[lastKey].at < now
    /\ \E j \in ReportKeys \ {lastKey} :
          Recent(built[j], now) /\ built[j].at > built[lastKey].at
    /\ \A d \in CallDaysStale : built[lastKey].text # FreshText(lastKey, d)

\* C6 as the specification states it: once the time to live of a stored
\* report is over, the next call with its key makes an upstream request.
C6_Original_RebuildFetchesUpstream ==
    \A k \in ReportKeys, d \in CallDaysStale, script \in FetchScripts :
        Expired(built[k], now) =>
            \A o \in ReportNow(k, d, script) : o.requests >= 1

\* C6, amended: once the time to live of a stored report is over, the next
\* call with its key is not answered with the stored report: it runs the
\* build again. The build asks the upstream only for what sprintCache does
\* not hold unexpired: it makes no upstream request exactly when the sprint
\* of the board and the issues of that sprint are both cached and unexpired,
\* and the report is then computed from those cached values.
C6_RebuildAfterExpiryUsesCachedParts ==
    \A k \in ReportKeys, d \in CallDaysStale, script \in FetchScripts :
        Expired(built[k], now) =>
            LET pre == Snapshot(cache, now, k[1]) IN
            \A o \in ReportNow(k, d, script) :
                /\ o.stage # "hit"
                /\ o.requests = 0 <=> (pre.sprintFresh /\ pre.issuesFresh)
                /\ o.requests = 0 =>
                      /\ o.stage = "done"
                      /\ o.resp = TextResponse(BuildReport(pre.sprint, pre.issues, k[2], d,
                                                           NowMs(now)).report)

\* a report was built again after its time to live without any upstream
\* request, and differs from what the upstream yields for any staleness
C6_Witness ==
    /\ last.tool = "report"
    /\ last.afterExpiry
    /\ last.stage = "done"
    /\ last.requests = 0
    /\ built[lastKey].at = now
    /\ \A d \in CallDaysStale : built[lastKey].text # FreshText(lastKey, d)

\* the staleness thresholds a caller may ask for (0: none given)
AnyDaysStale == {0, 1, 2, 3, 30}

\* C7: while a report is cached and unexpired under a board and project key,
\* every call with that key returns the stored report whatever daysStale it
\* asks for, and the PDF tool renders that stored report: calls that differ
\* only in daysStale get the same answer.
C7_CachedReportIgnoresDaysStale ==
    \A k \in ReportKeys :
        StoredFresh(cache, StandupEntryKey(k), now) =>
            LET stored == StoredData(cache, StandupEntryKey(k)) IN
            \A d \in AnyDaysStale, script \in FetchScripts :
                /\ \A o \in ReportNow(k, d, script) :
                      o.resp = TextResponse(stored) /\ o.requests = 0
                /\ ReportNow(k, d, script) = ReportNow(k, 0, script)
                /\ \A rendered \in BOOLEAN :
                      /\ PdfNow(k, d, script, rendered) = PdfNow(k, 0, script, rendered)
                      /\ \A o \in PdfNow(k, d, script, rendered) :
                            /\ o.inner = TextResponse(stored)
                            /\ rendered =>
                                  JsonParse(o.resp).reportSummary = ReportSummary(stored)

\* the PDF tool was answered from a cached report that a build with another
\* staleness, from the same issues, would not have produced
C7_Witness ==
    /\ last.tool = "pdf"
    /\ last.stage = "hit"
    /\ last.pdf = "rendered"
    /\ StoredFresh(cache, StandupEntryKey(lastKey), now)
    /\ \E list \in {IssuesEarly, IssuesLate}, d1 \in CallDaysStale, d2 \in CallDaysStale :
          LET text(d) == TextResponse(BuildReport(ActiveSprint42, list, lastKey[2], d,
                                                   NowMs(now)).report)
          IN built[lastKey].text = text(d1) /\ built[lastKey].text # text(d2)

\* the report calls that reach a board without an active sprint: no report
\* and no sprint of the board in the cache, the sprint request answered
NoSprintScripts == {<<200>>, <<503, 200>>}

\* C8: a report call for a board that has no active sprint is answered with
\* the sprint-not-found error (status 404, code JIRA_SPRINT_NOT_FOUND), after
\* the sprint request only: no issue is fetched and nothing is stored.
C8_NoActiveSprintIsAnError ==
    \A boardId \in CallBoards \ {0}, projectKey \in CallProjectKeys, d \in CallDaysStale,
       script \in NoSprintScripts :
        (/\ jira.sprints[boardId] = <<>>
         /\ ~StoredFresh(cache, StandupEntryKey(<<boardId, projectKey>>), now)
         /\ ~Snapshot(cache, now, boardId).sprintFresh) =>
            \A o \in ReportNow(<<boardId, projectKey>>, d, script) :
                /\ o.stage = "nosprint"
                /\ o.resp = TextResponse(
                       [ error |-> SprintNotFound(boardId).message,
                         tool |-> "jira_daily_standup_report",
                         status |-> 404,
                         details |-> [code |-> "JIRA_SPRINT_NOT_FOUND", timestamp |-> now] ])
                /\ o.requests = Len(script)
                /\ o.store = cache
                /\ ~Held(o.store, <<boardId, projectKey>>)

\* a report call for the board without an active sprint has been answered,
\* while the cache was in use
C8_Witness ==
    /\ last.tool = "report"
    /\ last.stage = "nosprint"
    /\ last.boardId = 2
    /\ last.requests = 1
    /\ cache # <<>>

----------------------------------------------------------------------------
(* SpecGateway: getActiveSprint and getSprintTickets against sprintCache,   *)
(* getSprintTickets one page at a time. Calls run one after the other; the  *)
(* clock may advance while a call waits for a page. Between calls the       *)
(* report handler stores reports in the same cache and the sweep runs.      *)

\* the largest total the tracker reports for the sprint
MaxTotal == 5

\* the last second the gateway's clock reaches
GatewayMaxNow == 800

GatewayIssueKeys == <<"WEB-1", "WEB-2", "WEB-3", "API-4", "API-5", "WEB-6", "API-7", "WEB-8">>

GatewayIssues(total) == [i \in 1..total |-> IssueOfKey(GatewayIssueKeys[i])]

\* the tracker's answer to GET /sprint/{id}/issue?startAt=..&maxResults=..
PageResponse(list, startAt, maxResults) ==
    [ issues |-> SubSeq(list, startAt + 1,
                        IF startAt + maxResults < Len(list)
                        THEN startAt + maxResults ELSE Len(list)),
      total |-> Len(list) ]

\* mutant: the loop goes on while startAt <= total
MorePagesInclusive(startAt, total) == startAt <= total

\* while (startAt < total)
MorePages(startAt, total) == startAt < total

\* mutant: the issues accumulated so far are cached when a page fails
StoreAfterPageFailureCachingPartial(store, sprintId, allIssues, t) ==
    IF allIssues = <<>> THEN store
    ELSE CacheSet(store, SprintCacheConfig, CacheKeySprintIssues(sprintId),
                  allIssues, SprintIssuesTTL, t)

\* the error of a page leaves getSprintTickets before sprintCache.set
StoreAfterPageFailure(store, sprintId, allIssues, t) == store

\* a second sprint the tracker lists as active on board 1
NextSprint43 == [id |-> 8, name |-> "Sprint 43"]

NoGatewayCall ==
    [ op |-> "none", boardId |-> 0, ok |-> FALSE, cached |-> FALSE,
      found |-> FALSE, value |-> <<>>, error |-> NoError, requests |-> 0 ]

TicketsRunning == [NoGatewayCall EXCEPT !.op = "running"]

InitGateway ==
    /\ cache = <<>>
    /\ now = 0
    /\ \E total \in 0..MaxTotal :
          jira = [ sprints |-> (1 :> <<ActiveSprint42, NextSprint43>> @@ 2 :> <<>>),
                   issues |-> (7 :> GatewayIssues(total)) ]
    /\ last = <<>>
    /\ built = <<>>
    /\ tPc = "idle"
    /\ tStartAt = 0
    /\ tTotal = 0
    /\ tAllIssues = <<>>
    /\ tFetched = <<>>
    /\ tBefore = <<>>
    /\ tResult = NoGatewayCall
    /\ tSprintAt = -1
    /\ BuilderIdle
    /\ RetryIdle
    /\ ManagerIdle
    /\ StartupIdle
    /\ CallsIdle

\* the frame of a finished call is gone
FrameGone ==
    /\ tStartAt' = 0
    /\ tTotal' = 0
    /\ tAllIssues' = <<>>

\* what is remembered of the last call is dropped when something else happens
Forgotten ==
    /\ tResult' = NoGatewayCall
    /\ tFetched' = <<>>
    /\ tBefore' = <<>>
    /\ UNCHANGED <<tStartAt, tTotal, tAllIssues>>

\* getActiveSprint(boardId)
CallGetActiveSprint ==
    /\ tPc = "idle"
    /\ \E boardId \in {1, 2}, script \in FetchScripts :
          \E o \in GetActiveSprint(cache, now, Upstream(script), boardId) :
              /\ cache' = o.store
              /\ tResult' = [ op |-> "sprint", boardId |-> boardId, ok |-> o.ok,
                              cached |-> o.cached, found |-> o.found,
                              value |-> o.sprint, error |-> o.error,
                              requests |-> o.requests ]
              /\ tSprintAt' = IF o.ok /\ o.found /\ ~o.cached /\ boardId = 1
                              THEN now ELSE tSprintAt
    /\ tBefore' = <<>>
    /\ tFetched' = <<>>
    /\ UNCHANGED <<now, jira, last, built, tPc, tStartAt, tTotal, tAllIssues,
                   bVars, rVars, cVars, yVars>>

\* getSprintTickets(7) up to its first request: the cache lookup
CallGetSprintTickets ==
    /\ tPc = "idle"
    /\ LET got == CacheGet(cache, SprintCacheConfig, CacheKeySprintIssues(7), now) IN
       /\ cache' = got.store
       /\ IF got.hit
          THEN /\ tResult' = [ op |-> "tickets", boardId |-> 0, ok |-> TRUE,
                               cached |-> TRUE, found |-> TRUE, value |-> got.data,
                               error |-> NoError, requests |-> 0 ]
               /\ tPc' = "idle"
          ELSE /\ tResult' = TicketsRunning
               /\ tPc' = "page"
    /\ tStartAt' = 0
    /\ tTotal' = 0
    /\ tAllIssues' = <<>>
    /\ tFetched' = <<>>
    /\ tBefore' = cache
    /\ UNCHANGED <<now, jira, last, built, tSprintAt, bVars, rVars, cVars, yVars>>

\* a page request succeeds, at once or after retries: the batch is pushed,
\* and when the generator ends the list is cached and returned
PageArrives ==
    /\ tPc = "page"
    /\ \E script \in FetchScripts :
          LET r == RetryRun(GatewayRetryOptions, script, 1)
              data == PageResponse(jira.issues[7], tStartAt, PageSize)
              allIssues == tAllIssues \o data.issues
              startAt == tStartAt + PageSize
          IN /\ r.ok
             /\ tFetched' = Append(tFetched, tStartAt)
             /\ IF MorePages(startAt, data.total)
                THEN /\ tAllIssues' = allIssues
                     /\ tStartAt' = startAt
                     /\ tTotal' = data.total
                     /\ UNCHANGED <<cache, tPc, tResult>>
                ELSE /\ FrameGone
                     /\ cache' = CacheSet(cache, SprintCacheConfig,
                                          CacheKeySprintIssues(7), allIssues,
                                          SprintIssuesTTL, now)
                     /\ tPc' = "idle"
                     /\ tResult' = [ op |-> "tickets", boardId |-> 0, ok |-> TRUE,
                                     cached |-> FALSE, found |-> TRUE,
                                     value |-> allIssues, error |-> NoError,
                                     requests |-> Len(tFetched) + 1 ]
    /\ UNCHANGED <<now, jira, last, built, tBefore, tSprintAt, bVars, rVars, cVars, yVars>>

\* a page request fails for good: retry throws and the error leaves
\* getSprintTickets
PageFails ==
    /\ tPc = "page"
    /\ \E script \in FetchScripts :
          LET r == RetryRun(GatewayRetryOptions, script, 1) IN
          /\ ~r.ok
          /\ tResult' = [ op |-> "tickets", boardId |-> 0, ok |-> FALSE,
                          cached |-> FALSE, found |-> FALSE, value |-> <<>>,
                          error |-> r.error, requests |-> Len(tFetched) + 1 ]
    /\ cache' = StoreAfterPageFailure(cache, 7, tAllIssues, now)
    /\ tPc' = "idle"
    /\ FrameGone
    /\ UNCHANGED <<now, jira, last, built, tFetched, tBefore, tSprintAt, bVars, rVars, cVars, yVars>>

\* the report handler's sprintCache.set(cacheKey, report, 300)
StoreReport ==
    /\ tPc = "idle"
    /\ \E projectKey \in CallProjectKeys :
          cache' = CacheSet(cache, SprintCacheConfig,
                            CacheKeyStandupReport(1, projectKey), NoText,
                            ReportTTL, now)
    /\ Forgotten
    /\ UNCHANGED <<now, jira, last, built, tPc, tSprintAt, bVars, rVars, cVars, yVars>>

\* cleanup(), run by the interval timer
GatewaySweep ==
    /\ tPc = "idle"
    /\ \E i \in 1..Len(cache) : now > cache[i].expiry
    /\ cache' = SelectSeq(cache, LAMBDA entry : ~(now > entry.expiry))
    /\ Forgotten
    /\ UNCHANGED <<now, jira, last, built, tPc, tSprintAt, bVars, rVars, cVars, yVars>>

GatewayTick ==
    /\ now + TickStep <= GatewayMaxNow
    /\ now' = now + TickStep
    /\ IF tPc = "idle" THEN Forgotten
       ELSE UNCHANGED <<tResult, tFetched, tBefore, tStartAt, tTotal, tAllIssues>>
    /\ UNCHANGED <<cache, jira, last, built, tPc, tSprintAt, bVars, rVars, cVars, yVars>>

NextGateway ==
    \/ CallGetActiveSprint
    \/ CallGetSprintTickets
    \/ PageArrives
    \/ PageFails
    \/ StoreReport
    \/ GatewaySweep
    \/ GatewayTick

SpecGateway == InitGateway /\ [][NextGateway]_vars

\* the tracker's list for sprint 7 and the full key of its cache entry
tList == jira.issues[7]
tIssuesKey == GetFullKey(SprintCacheConfig, CacheKeySprintIssues(7))

\* the offsets 0, PageSize, 2 * PageSize, ... of the first n pages
PageOffsets(n) == [i \in 1..n |-> (i - 1) * PageSize]

\* max(1, ceil(total / PageSize))
PagesNeeded(total) ==
    IF total = 0 THEN 1 ELSE (total + PageSize - 1) \div PageSize

\* a getSprintTickets call that missed the cache has just returned
tFetchedAll == tResult.op = "tickets" /\ tResult.ok /\ ~tResult.cached

tFailed == tResult.op = "tickets" /\ ~tResult.ok

tHolds(store, fullKey) == \E i \in 1..Len(store) : store[i].key = fullKey

tEntry(store, fullKey) == store[CHOOSE i \in 1..Len(store) : store[i].key = fullKey]

\* the same entries in the same order
SameEntries(a, b) ==
    /\ Len(a) = Len(b)
    /\ \A i \in 1..Len(a) :
          /\ a[i].key = b[i].key
          /\ a[i].expiry = b[i].expiry
          /\ a[i].data = b[i].data

tOthers(store) == SelectSeq(store, LAMBDA entry : entry.key # tIssuesKey)

\* C13 as stated: when a page fails after the pages before it succeeded, the
\* error is thrown, nothing of the accumulated issues is returned, and the
\* sprint-issues entry of the cache is exactly as it was before the call.
C13_Original_EntryExactlyAsBefore ==
    tFailed =>
        /\ IsApiError(tResult.error)
        /\ tResult.value = <<>>
        /\ tHolds(cache, tIssuesKey) = tHolds(tBefore, tIssuesKey)
        /\ tHolds(cache, tIssuesKey) =>
              /\ tEntry(cache, tIssuesKey).expiry = tEntry(tBefore, tIssuesKey).expiry
              /\ tEntry(cache, tIssuesKey).data = tEntry(tBefore, tIssuesKey).data

\* C13 amended: when a page fails after the pages before it succeeded, the
\* error is thrown and nothing of the accumulated issues is returned or
\* cached: the cache holds no sprint-issues entry while pages are fetched and
\* after the failure, the entry found before the call, if any, was expired
\* and was removed by the lookup, and every other entry is untouched.
C13_NoPartialListCachedOrReturned ==
    /\ tPc = "page" => ~tHolds(cache, tIssuesKey)
    /\ tFailed =>
          /\ IsApiError(tResult.error)
          /\ tResult.value = <<>>
          /\ ~tHolds(cache, tIssuesKey)
          /\ tHolds(tBefore, tIssuesKey) => now > tEntry(tBefore, tIssuesKey).expiry
          /\ SameEntries(tOthers(cache), tOthers(tBefore))

\* the third page fails after two pages arrived, and the call had found an
\* expired list in the cache
C13_Witness ==
    /\ tFailed
    /\ Len(tFetched) = 2
    /\ tResult.error = FromAxiosError(404)
    /\ tHolds(tBefore, tIssuesKey)
    /\ tOthers(cache) # <<>>

tSprintKey(boardId) == GetFullKey(SprintCacheConfig, CacheKeySprint(boardId))

\* getActiveSprint(1) answers from the cache, whatever the tracker would do
tSprintFromCache ==
    \A script \in FetchScripts :
        \A o \in GetActiveSprint(cache, now, Upstream(script), 1) :
            /\ o.ok /\ o.found /\ o.cached
            /\ o.requests = 0
            /\ o.sprint = ActiveSprint42

\* board 2 has no active sprint: null is returned, nothing is cached, and
\* the next call asks the tracker again
tNoSprintNeverCached ==
    /\ ~tHolds(cache, tSprintKey(2))
    /\ \A script \in FetchScripts :
          \A o \in GetActiveSprint(cache, now, Upstream(script), 2) :
              /\ o.requests >= 1
              /\ ~o.cached
              /\ o.ok => ~o.found /\ ~tHolds(o.store, tSprintKey(2))
    /\ (tResult.op = "sprint" /\ tResult.boardId = 2 /\ tResult.ok) =>
          ~tResult.found /\ tResult.requests >= 1

\* a getActiveSprint call has just fetched a sprint from the tracker
tSprintFetched == tResult.op = "sprint" /\ tResult.ok /\ tResult.found /\ ~tResult.cached

\* C14 as stated: the first active sprint is returned and cached for 10
\* minutes, so that no call within 10 minutes of the fetch makes an upstream
\* request; with no active sprint null is returned and nothing cached.
C14_Original_NoRequestWithinWindow ==
    /\ tSprintFetched => tResult.value = ActiveSprint42
    /\ (tPc = "idle" /\ tSprintAt >= 0 /\ now <= tSprintAt + SprintTTL)
          => tSprintFromCache
    /\ tNoSprintNeverCached

\* C14 amended: the first active sprint is returned and stored under the
\* board id with an expiry 10 minutes ahead; as long as that entry is held
\* (sprintCache has not evicted it for room) calls up to the expiry make no
\* upstream request and return it; with no active sprint null is returned
\* and nothing cached, so every later call asks the tracker again.
C14_NoRequestWithinWindowWhileHeld ==
    /\ tSprintFetched =>
          /\ tResult.value = ActiveSprint42
          /\ tResult.boardId = 1
          /\ tSprintAt = now
          /\ tHolds(cache, tSprintKey(1))
    /\ tHolds(cache, tSprintKey(1)) =>
          /\ tSprintAt >= 0
          /\ tEntry(cache, tSprintKey(1)).expiry = tSprintAt + SprintTTL
          /\ tEntry(cache, tSprintKey(1)).data = ActiveSprint42
    /\ (tPc = "idle" /\ tHolds(cache, tSprintKey(1)) /\ now <= tSprintAt + SprintTTL)
          => tSprintFromCache
    /\ tNoSprintNeverCached

\* a call on the last second of the window is answered from the cache
C14_Witness ==
    /\ tResult.op = "sprint"
    /\ tResult.boardId = 1
    /\ tResult.cached
    /\ tResult.requests = 0
    /\ tResult.value = ActiveSprint42
    /\ now = tSprintAt + SprintTTL

\* the kinds of data that the handlers store, each with the keys tried and the
\* time to live of its entries; all are stored in sprintCache
tDomains ==
    { [ name |-> "sprint", ttl |-> SprintTTL,
        keys |-> {CacheKeySprint(1), CacheKeySprint(2)} ],
      [ name |-> "sprint-issues", ttl |-> SprintIssuesTTL,
        keys |-> {CacheKeySprintIssues(7)} ],
      [ name |-> "standup", ttl |-> ReportTTL,
        keys |-> {CacheKeyStandupReport(1, pk) : pk \in CallProjectKeys} ] }

\* the kind of the data of an entry: the first part of its key
tDomainOf(entry) == entry.key[2]

\* sprintCache.set(key, data, ttl) called now
tSetNow(key, ttl) == CacheSet(cache, SprintCacheConfig, key, NoText, ttl, now)

\* the entry is in the store, with its data and expiry
tKept(store, entry) ==
    \E i \in 1..Len(store) :
        /\ store[i].key = entry.key
        /\ store[i].expiry = entry.expiry
        /\ store[i].data = entry.data

\* entry i of the cache is the first, in insertion order, of the smallest expiry
tSoonest(i) ==
    \A j \in 1..Len(cache) :
        \/ cache[j].expiry > cache[i].expiry
        \/ cache[j].expiry = cache[i].expiry /\ j >= i

----------------------------------------------------------------------------
(* SpecCache: one CacheManager made without a prefix, as by                  *)
(* new CacheManager({ ttl, maxSize }), under every sequence of its public   *)
(* methods, the sweep and the clock. Full keys are the keys themselves.     *)

\* the largest maxSize tried
MaxCap == 2

\* the last second the manager's clock reaches
CacheMaxNow == 2

\* the most get, has and getOrSet calls counted
MaxCount == 1

\* JavaScript's null
Null == "null"

CacheKeysTried == {<<>>, <<"a">>, <<"b">>}
CacheValuesTried == {Null, "v"}
CacheTtlsTried == {0, 1}
CachePatternsTried == {<<"*">>, <<"a">>}
FactoryOutcomes ==
    { [ok |-> TRUE, value |-> "v"], [ok |-> TRUE, value |-> Null],
      [ok |-> FALSE, value |-> Null] }

\* what get returns: entry.data, or null
GetReturn(got) == IF got.hit THEN got.data ELSE Null

\* has(key): get(key) !== null
CacheHas(store, config, key, t) ==
    LET got == CacheGet(store, config, key, t) IN
    [store |-> got.store, hit |-> got.hit, ret |-> GetReturn(got) # Null]

\* delete(key)
CacheDelete(store, config, key) ==
    LET at == IndexOfKey(store, GetFullKey(config, key)) IN
    IF at = 0 THEN [store |-> store, ret |-> FALSE]
    ELSE [store |-> RemoveAt(store, at), ret |-> TRUE]

\* getOrSet(key, factory, ttlSeconds) with a factory of the given outcome
CacheGetOrSet(store, config, key, factory, ttlSeconds, t) ==
    LET got == CacheGet(store, config, key, t)
        cached == GetReturn(got)
    IN IF cached # Null
       THEN [store |-> got.store, hit |-> got.hit, ok |-> TRUE, ret |-> cached,
             calls |-> 0]
       ELSE IF ~factory.ok
       THEN [store |-> got.store, hit |-> got.hit, ok |-> FALSE, ret |-> Null,
             calls |-> 1]
       ELSE [store |-> CacheSet(got.store, config, key, factory.value, ttlSeconds, t),
             hit |-> got.hit, ok |-> TRUE, ret |-> factory.value, calls |-> 1]

\* '\n', one of the line terminators that '.' does not match
LineFeed == "\n"

\* pattern.replace(/\*/g, '.*').replace(/\?/g, '.'): the source of the
\* regular expression between '^' and '$', a sequence of characters
RECURSIVE RegexSource(_)
RegexSource(pattern) ==
    IF pattern = <<>> THEN <<>>
    ELSE (CASE pattern[1] = "*" -> <<".", "*">>
            [] pattern[1] = "?" -> <<".">>
            [] OTHER -> <<pattern[1]>>) \o RegexSource(Tail(pattern))

\* one atom of the expression against one character: '.' is any character
\* but a line terminator, every other atom tried here is a literal
AtomMatches(atom, c) == IF atom = "." THEN c # LineFeed ELSE atom = c

\* the expression from its i-th character on matches the text from its j-th
\* character to its end; an atom followed by '*' repeats any number of times
RECURSIVE RegexMatchesFrom(_, _, _, _)
RegexMatchesFrom(source, i, text, j) ==
    IF i > Len(source) THEN j > Len(text)
    ELSE IF i < Len(source) /\ source[i + 1] = "*"
    THEN \/ RegexMatchesFrom(source, i + 2, text, j)
         \/ /\ j <= Len(text)
            /\ AtomMatches(source[i], text[j])
            /\ RegexMatchesFrom(source, i, text, j + 1)
    ELSE /\ j <= Len(text)
         /\ AtomMatches(source[i], text[j])
         /\ RegexMatchesFrom(source, i + 1, text, j + 1)

\* new RegExp('^' + source + '$').test(text)
RegexTest(source, text) == RegexMatchesFrom(source, 1, text, 1)

\* the regular expression built from the pattern, tested on a full key
PatternMatches(pattern, fullKey) == RegexTest(RegexSource(pattern), fullKey)

\* invalidatePattern(pattern)
CacheInvalidatePattern(store, pattern) ==
    LET kept == SelectSeq(store, LAMBDA entry : ~PatternMatches(pattern, entry.key))
    IN [store |-> kept, ret |-> Len(store) - Len(kept)]

\* mutant: the sweep also removes the entries that expire at this very moment
CacheCleanupInclusive(store, t) == SelectSeq(store, LAMBDA entry : ~(t >= entry.expiry))

\* cleanup()
CacheCleanup(store, t) == SelectSeq(store, LAMBDA entry : ~(t > entry.expiry))

NoMethod == [op |-> "none", key |-> <<>>, ret |-> Null, was |-> "missing"]

\* how a call finds the entry of a key: missing, expired or fresh
Found(store, config, key, t) ==
    LET fullKey == GetFullKey(config, key) IN
    IF ~\E i \in 1..Len(store) : store[i].key = fullKey THEN "missing"
    ELSE IF \E i \in 1..Len(store) : store[i].key = fullKey /\ t > store[i].expiry
    THEN "expired" ELSE "fresh"

\* setInterval(() => { this.cleanup(); }, 60000), in seconds
SweepInterval == 60

\* the timer started at time t: it fires first at t + 60 s
IntervalTimer(t) == [active |-> TRUE, due |-> t + SweepInterval]

InitCache ==
    /\ cConfig \in [prefix : {""}, ttl : {2}, maxSize : {1, MaxCap}]
    /\ cache = <<>>
    /\ now = 0
    /\ cHits = 0
    /\ cMisses = 0
    /\ cLast = NoMethod
    /\ cleanupInterval = IntervalTimer(now)
    /\ jira = <<>>
    /\ last = <<>>
    /\ built = <<>>
    /\ BuilderIdle
    /\ RetryIdle
    /\ GatewayIdle
    /\ StartupIdle
    /\ CallsIdle

\* hitCount++ or missCount++
Counted(hit) ==
    /\ cHits' = IF hit THEN cHits + 1 ELSE cHits
    /\ cMisses' = IF hit THEN cMisses ELSE cMisses + 1

ManagerSet ==
    /\ \E key \in CacheKeysTried, data \in CacheValuesTried, ttl \in CacheTtlsTried :
          /\ cache' = CacheSet(cache, cConfig, key, data, ttl, now)
          /\ cLast' = NoMethod
    /\ UNCHANGED <<cConfig, cleanupInterval, cHits, cMisses, now, jira, last, built, bVars, rVars, tVars, yVars>>

ManagerGet ==
    /\ cHits + cMisses < MaxCount
    /\ \E key \in CacheKeysTried :
          LET got == CacheGet(cache, cConfig, key, now) IN
          /\ cache' = got.store
          /\ Counted(got.hit)
          /\ cLast' = [ op |-> "get", key |-> key, ret |-> GetReturn(got),
                        was |-> Found(cache, cConfig, key, now) ]
    /\ UNCHANGED <<cConfig, cleanupInterval, now, jira, last, built, bVars, rVars, tVars, yVars>>

ManagerHas ==
    /\ cHits + cMisses < MaxCount
    /\ \E key \in CacheKeysTried :
          LET had == CacheHas(cache, cConfig, key, now) IN
          /\ cache' = had.store
          /\ Counted(had.hit)
          /\ cLast' = NoMethod
    /\ UNCHANGED <<cConfig, cleanupInterval, now, jira, last, built, bVars, rVars, tVars, yVars>>

ManagerDelete ==
    /\ \E key \in CacheKeysTried :
          LET gone == CacheDelete(cache, cConfig, key) IN
          /\ gone.ret
          /\ cache' = gone.store
          /\ cLast' = NoMethod
    /\ UNCHANGED <<cConfig, cleanupInterval, cHits, cMisses, now, jira, last, built, bVars, rVars, tVars, yVars>>

ManagerClear ==
    /\ cache # <<>> \/ cHits + cMisses > 0
    /\ cache' = <<>>
    /\ cHits' = 0
    /\ cMisses' = 0
    /\ cLast' = NoMethod
    /\ UNCHANGED <<cConfig, cleanupInterval, now, jira, last, built, bVars, rVars, tVars, yVars>>

ManagerGetOrSet ==
    /\ cHits + cMisses < MaxCount
    /\ \E key \in CacheKeysTried, factory \in FactoryOutcomes, ttl \in CacheTtlsTried :
          LET o == CacheGetOrSet(cache, cConfig, key, factory, ttl, now) IN
          /\ cache' = o.store
          /\ Counted(o.hit)
          /\ cLast' = NoMethod
    /\ UNCHANGED <<cConfig, cleanupInterval, now, jira, last, built, bVars, rVars, tVars, yVars>>

ManagerInvalidatePattern ==
    /\ \E pattern \in CachePatternsTried :
          LET o == CacheInvalidatePattern(cache, pattern) IN
          /\ o.ret > 0
          /\ cache' = o.store
          /\ cLast' = NoMethod
    /\ UNCHANGED <<cConfig, cleanupInterval, cHits, cMisses, now, jira, last, built, bVars, rVars, tVars, yVars>>

\* cleanup(), run by the interval timer
ManagerSweep ==
    /\ CacheCleanup(cache, now) # cache
    /\ cache' = CacheCleanup(cache, now)
    /\ cLast' = NoMethod
    /\ UNCHANGED <<cConfig, cleanupInterval, cHits, cMisses, now, jira, last, built, bVars, rVars, tVars, yVars>>

ManagerTick ==
    /\ now < CacheMaxNow
    /\ now' = now + 1
    /\ cLast' = NoMethod
    /\ UNCHANGED <<cConfig, cleanupInterval, cHits, cMisses, cache, jira, last, built, bVars, rVars, tVars, yVars>>

NextCache ==
    \/ ManagerSet
    \/ ManagerGet
    \/ ManagerHas
    \/ ManagerDelete
    \/ ManagerClear
    \/ ManagerGetOrSet
    \/ ManagerInvalidatePattern
    \/ ManagerSweep
    \/ ManagerTick

SpecCache == InitCache /\ [][NextCache]_vars

\* the entries of a store other than the one of a full key
cOthers(store, fullKey) == SelectSeq(store, LAMBDA entry : entry.key # fullKey)

\* C15: get returns absent and adds one to the miss counter exactly when
\* the key is missing or now > expiry, deleting the entry when it is
\* expired, whether or not the sweep has run; otherwise it adds one to the
\* hit counter and returns the stored value; either way exactly one counter
\* changes, by one, and no other entry is touched.
C15_GetCountsOneHitOrMiss ==
    [][ cLast'.op = "get" =>
          LET fullKey == GetFullKey(cConfig, cLast'.key)
              present == tHolds(cache, fullKey)
              expired == present /\ now > tEntry(cache, fullKey).expiry
          IN /\ SameEntries(cOthers(cache', fullKey), cOthers(cache, fullKey))
             /\ IF ~present \/ expired
                THEN /\ cLast'.ret = Null
                     /\ cMisses' = cMisses + 1
                     /\ cHits' = cHits
                     /\ ~tHolds(cache', fullKey)
                ELSE /\ cLast'.ret = tEntry(cache, fullKey).data
                     /\ cHits' = cHits + 1
                     /\ cMisses' = cMisses
                     /\ cache' = cache ]_vars

\* a get found an expired entry that the sweep had not removed
C15_Witness ==
    /\ cLast.op = "get"
    /\ cLast.was = "expired"
    /\ cLast.ret = Null
    /\ cMisses = 1
    /\ cHits = 0
    /\ cache # <<>>

\* C16: set of a new key into a store at capacity removes exactly one entry,
\* one whose expiry is smallest, before inserting; set of a key already
\* present, or into a store below capacity, evicts nothing.
C16_SetEvictsOneOldestAtCapacity ==
    \A key \in CacheKeysTried, data \in CacheValuesTried, ttl \in CacheTtlsTried :
        LET fullKey == GetFullKey(cConfig, key)
            after == CacheSet(cache, cConfig, key, data, ttl, now)
        IN /\ tHolds(after, fullKey)
           /\ IF ~tHolds(cache, fullKey) /\ Len(cache) >= cConfig.maxSize
              THEN \E i \in 1..Len(cache) :
                      /\ \A j \in 1..Len(cache) : cache[j].expiry >= cache[i].expiry
                      /\ SameEntries(cOthers(after, fullKey), RemoveAt(cache, i))
              ELSE SameEntries(cOthers(after, fullKey), cOthers(cache, fullKey))

\* C17: after any sequence of set, get, has, delete, clear, getOrSet,
\* invalidatePattern and sweep on a CacheManager with maxSize >= 1 the number
\* of stored entries never exceeds maxSize.
C17_SizeNeverExceedsMaxSize ==
    cConfig.maxSize >= 1 => Len(cache) <= cConfig.maxSize

\* C18: getOrSet(key, factory, ttl) returns the value of an unexpired entry,
\* whatever value was stored in it, without invoking factory; otherwise it
\* invokes factory exactly once, stores the result under the key with the
\* given ttl and returns it; if factory fails the error propagates and
\* nothing is stored.
C18_GetOrSetReturnsAnyStoredValue ==
    \A key \in CacheKeysTried, factory \in FactoryOutcomes, ttl \in CacheTtlsTried :
        LET fullKey == GetFullKey(cConfig, key)
            o == CacheGetOrSet(cache, cConfig, key, factory, ttl, now)
        IN IF Found(cache, cConfig, key, now) = "fresh"
           THEN /\ o.calls = 0
                /\ o.ok
                /\ o.ret = tEntry(cache, fullKey).data
                /\ o.store = cache
           ELSE /\ o.calls = 1
                /\ IF factory.ok
                   THEN /\ o.ok
                        /\ o.ret = factory.value
                        /\ tHolds(o.store, fullKey)
                        /\ tEntry(o.store, fullKey).data = factory.value
                        /\ tEntry(o.store, fullKey).expiry
                              = now + (IF ttl = 0 THEN cConfig.ttl ELSE ttl)
                   ELSE /\ ~o.ok
                        /\ ~tHolds(o.store, fullKey)

----------------------------------------------------------------------------
(* SpecServer: the CallTool request handler of src/src/index.ts routing     *)
(* every tool name to handleJiraTool or handleSlackTool, one call at a      *)
(* time, over sprintCache, the clock and the upstream services.             *)
(*   cache   sprintCache                                                    *)
(*   now     Date.now(), in seconds                                         *)
(*   jira    the upstream tracker                                           *)
(*   last    the call answered in the last step: its tool name, whether     *)
(*           its arguments satisfy the tool's schema, how it ended and      *)
(*           what it did                                                    *)
(* A response whose text is not JSON is the sequence of the parts of its    *)
(* text.                                                                    *)

ServerTickStep == 400
ServerMaxNow == 400

JiraToolNames ==
    { "jira_create_issue", "jira_search_issues", "jira_update_issue",
      "jira_get_sprint_issues", "jira_daily_standup_report",
      "jira_generate_standup_pdf" }

SlackToolNames ==
    { "slack_post_message", "slack_create_reminder",
      "slack_get_channel_history", "slack_schedule_message" }

\* names that no case of the handlers' switches matches: one that starts
\* with jira_, one that starts with slack_, one that starts with neither
UnknownJiraToolName == "jira_delete_issue"
UnknownSlackToolName == "slack_archive_channel"
UnknownToolName == "github_create_pr"

\* { content: [{ type: 'text', text }] } with a text put together of parts
PlainResponse(parts) == [type |-> "text", plain |-> parts]

\* what a call came to: ended is "returned" (the handler's promise resolved
\* with resp) or "thrown" (it rejected); failed: an error was thrown on its
\* way; requests: the HTTP requests it issued; stage and pdf: how far the
\* handler and, in the PDF tool, the renderer got
Served(store, ended, failed, resp, requests, stage, pdf) ==
    [ store |-> store, ended |-> ended, failed |-> failed, resp |-> resp,
      requests |-> requests, stage |-> stage, pdf |-> pdf ]

\* an outcome of one of the sprint tools
ServedSprintTool(o) ==
    Served(o.store, "returned",
           o.stage \notin {"hit", "done"} \/ o.pdf \in {"nodata", "failed"},
           o.resp, o.requests, o.stage, o.pdf)

\* the catch block of handleJiraTool
ServedCaught(store, e, tool, t, requests, stage) ==
    Served(store, "returned", TRUE, TextResponse(ErrorHandlerHandle(e, tool, t)),
           requests, stage, "none")

\* new ApiError(`Unknown Jira tool: ${name}`, ErrorCode.UNKNOWN_TOOL, 400)
UnknownJiraTool(name) ==
    [class |-> "ApiError", code |-> "UNKNOWN_TOOL", statusCode |-> 400,
     message |-> "Unknown Jira tool"]

WellFormedIssueKeys == {"WEB-2", "API-5"}

\* CreateJiraIssueSchema: args = [project, summary]
ValidCreateArgs(args) ==
    args.project \in WellFormedProjectKeys /\ args.summary # ""

\* SearchJiraIssuesSchema: args = [jql]
ValidSearchArgs(args) == args.jql # ""

\* UpdateJiraIssueSchema: args = [issueKey, fields], fields the set of the
\* names of the properties of args.fields
ValidUpdateArgs(args) ==
    args.issueKey \in WellFormedIssueKeys /\ args.fields # {}

CacheKeyIssue(issueKey) == <<"issue", issueKey>>

\* case 'jira_create_issue'
CreateIssue(store, t, script, args) ==
    LET tool == "jira_create_issue"
        r == RetryRun(GatewayRetryOptions, script, 1)
    IN IF ~ValidCreateArgs(args)
       THEN ServedCaught(store, InputValidationError, tool, t, 0, "invalid")
       ELSE IF ~r.ok
       THEN ServedCaught(store, r.error, tool, t, r.requests, "upstream")
       ELSE Served(store, "returned", FALSE,
                   PlainResponse(<<"Created issue: ", "WEB-10">>),
                   r.requests, "done", "none")

\* case 'jira_search_issues'
SearchIssues(store, t, args) ==
    LET tool == "jira_search_issues" IN
    IF ~ValidSearchArgs(args)
    THEN ServedCaught(store, InputValidationError, tool, t, 0, "invalid")
    ELSE Served(store, "returned", FALSE,
                TextResponse([ error |-> "JQL search is not available",
                               message |-> "The Jira search API has been deprecated on this instance." ]),
                0, "done", "none")

\* mutant: the cache is emptied before the update is sent upstream
UpdateIssueClearingFirst(store, t, script, args) ==
    LET tool == "jira_update_issue"
        r == RetryRun(GatewayRetryOptions, script, 1)
    IN IF ~ValidUpdateArgs(args)
       THEN ServedCaught(store, InputValidationError, tool, t, 0, "invalid")
       ELSE IF ~r.ok
       THEN ServedCaught(<<>>, r.error, tool, t, r.requests, "upstream")
       ELSE Served(<<>>, "returned", FALSE,
                   PlainResponse(<<"Updated issue: ", args.issueKey>>),
                   r.requests, "done", "none")

\* case 'jira_update_issue'
UpdateIssue(store, t, script, args) ==
    LET tool == "jira_update_issue"
        r == RetryRun(GatewayRetryOptions, script, 1)
    IN IF ~ValidUpdateArgs(args)
       THEN ServedCaught(store, InputValidationError, tool, t, 0, "invalid")
       ELSE IF ~r.ok
       THEN ServedCaught(store, r.error, tool, t, r.requests, "upstream")
       ELSE Served(CacheDelete(store, SprintCacheConfig,
                               CacheKeyIssue(args.issueKey)).store,
                   "returned", FALSE,
                   PlainResponse(<<"Updated issue: ", args.issueKey>>),
                   r.requests, "done", "none")

\* the PostSlackMessageSchema .. ScheduleSlackMessageSchema of validation.ts;
\* args = [present, channel, text, time, postAt], present: args is an
\* object, "" and 0: the property is absent
SlackChannelIds == {"C012345678"}
SlackChannels == {"#dev"} \cup SlackChannelIds

ValidSlackArgs(name, args, t) ==
    /\ args.present
    /\ CASE name = "slack_post_message" ->
              /\ args.channel \in SlackChannels /\ args.text # ""
              /\ args.time = "" /\ args.postAt = 0
         [] name = "slack_create_reminder" ->
              /\ args.text # "" /\ args.time # ""
              /\ args.channel = "" /\ args.postAt = 0
         [] name = "slack_get_channel_history" ->
              /\ args.channel \in SlackChannelIds
              /\ args.text = "" /\ args.time = "" /\ args.postAt = 0
         [] name = "slack_schedule_message" ->
              /\ args.channel \in SlackChannels /\ args.text # ""
              /\ args.time = "" /\ args.postAt > t
         [] OTHER -> FALSE

\* the catch block of handleSlackTool: `Error: ${error.message}`
SlackCaught(store, message, requests) ==
    Served(store, "returned", TRUE, PlainResponse(<<"Error: ">> \o message),
           requests, "caught", "none")

\* how Slack answers the one request of a call: "ok" (data.ok), "notok"
\* (data.ok false and data.error), "http" (no 2xx response)
SlackAnswers == {"ok", "notok", "http"}

\* handleSlackTool(name, args)
SlackTool(store, name, args, answer) ==
    IF name \notin SlackToolNames
    THEN SlackCaught(store, <<"Unknown Slack tool: ", name>>, 0)
    ELSE IF ~args.present
    THEN SlackCaught(store, <<"Cannot read properties of undefined">>, 0)
    ELSE IF answer = "http"
    THEN SlackCaught(store, <<"Request failed with status code 500">>, 1)
    ELSE IF answer = "notok"
    THEN SlackCaught(store, <<"channel_not_found">>, 1)
    ELSE IF name = "slack_schedule_message" /\ args.postAt = 0
    THEN SlackCaught(store, <<"Invalid time value">>, 1)
    ELSE Served(store, "returned", FALSE,
                PlainResponse(
                    CASE name = "slack_post_message" ->
                           <<"Message posted to ", args.channel>>
                      [] name = "slack_create_reminder" ->
                           <<"Reminder created: ", args.text, " at ", args.time>>
                      [] name = "slack_get_channel_history" -> <<"[]">>
                      [] OTHER -> <<"Message scheduled for ", args.postAt>>),
                1, "done", "none")

\* the arguments tried
CreateArgsTried == [project : {"WEB", "web"}, summary : {"", "fix"}]
SearchArgsTried == [jql : {"", "project = WEB"}]
UpdateArgsTried == [issueKey : {"WEB-2", "web2"}, fields : {{}, {"summary"}}]
BoardArgsTried ==
    [boardId : CallBoards, projectKey : {""}, daysStale : {0}]
ReportArgsTried ==
    [ boardId : CallBoards, projectKey : {""}, daysStale : {0},
      includeUnassigned : BOOLEAN ]
SlackArgsTried ==
    [ present : BOOLEAN, channel : {"", "dev", "#dev", "C012345678"},
      text : {"", "hi"}, time : {"", "9am"}, postAt : {0, 5000} ]
ToolScripts == {<<200>>, <<503, 200>>, <<503, 404>>}

Invocation(name, valid, out) == [name |-> name, valid |-> valid, out |-> out]

\* handleJiraTool(name, args) called in this state, for every name that
\* starts with jira_, all arguments tried and every answer of the upstream
JiraInvocations(store, t, up) ==
    { Invocation("jira_create_issue", ValidCreateArgs(args),
                 CreateIssue(store, t, script, args)) :
         args \in CreateArgsTried, script \in ToolScripts }
    \cup
    { Invocation("jira_search_issues", ValidSearchArgs(args),
                 SearchIssues(store, t, args)) : args \in SearchArgsTried }
    \cup
    { Invocation("jira_update_issue", ValidUpdateArgs(args),
                 UpdateIssue(store, t, script, args)) :
         args \in UpdateArgsTried, script \in ToolScripts }
    \cup
    UNION { { Invocation("jira_get_sprint_issues", ValidBoardArgs(args),
                         ServedSprintTool(o)) :
                 o \in GetSprintIssues(store, t,
                          [up EXCEPT !.script = script], args) } :
              args \in BoardArgsTried, script \in FetchScripts }
    \cup
    UNION { { Invocation("jira_daily_standup_report", ValidReportArgs(args),
                         ServedSprintTool(o)) :
                 o \in DailyStandupReport(store, t,
                          [up EXCEPT !.script = script], args) } :
              args \in ReportArgsTried, script \in FetchScripts }
    \cup
    UNION { { Invocation("jira_generate_standup_pdf", ValidReportArgs(args),
                         ServedSprintTool(o)) :
                 o \in GenerateStandupPdf(store, t,
                          [up EXCEPT !.script = script], args, rendered) } :
              args \in BoardArgsTried, script \in FetchScripts,
              rendered \in BOOLEAN }
    \cup
    { Invocation(UnknownJiraToolName, TRUE,
                 ServedCaught(store, UnknownJiraTool(UnknownJiraToolName),
                              UnknownJiraToolName, t, 0, "unknown")) }

\* handleSlackTool(name, args) called in this state
SlackInvocations(store, t) ==
    { Invocation(name, ValidSlackArgs(name, args, t),
                 SlackTool(store, name, args, answer)) :
         name \in SlackToolNames \cup {UnknownSlackToolName},
         args \in SlackArgsTried, answer \in SlackAnswers }

\* the CallTool request handler called in this state
Invocations(store, t, up) ==
    JiraInvocations(store, t, up)
    \cup SlackInvocations(store, t)
    \cup { Invocation(UnknownToolName, TRUE,
                      Served(store, "thrown", TRUE, NoText, 0, "unknown", "none")) }

\* the sprint of board 1 holds an assigned and an unassigned open issue
ServerIssues == <<IssueOfKey("WEB-2"), IssueOfKey("WEB-3")>>

ServerNoCall ==
    [ name |-> "none", valid |-> TRUE, ended |-> "none", failed |-> FALSE,
      requests |-> 0, stage |-> "none", pdf |-> "none", kept |-> TRUE ]

InitServer ==
    /\ cache = <<>>
    /\ now = 0
    /\ jira = [ sprints |-> (1 :> <<ActiveSprint42>> @@ 2 :> <<>>),
                issues |-> (7 :> ServerIssues), script |-> <<200>> ]
    /\ last = ServerNoCall
    /\ built = [k \in ReportKeys |-> NoReport]
    /\ BuilderIdle
    /\ RetryIdle
    /\ ExtraIdle

ServerAnswered(inv) ==
    /\ cache' = inv.out.store
    /\ last' = [ name |-> inv.name, valid |-> inv.valid,
                 ended |-> inv.out.ended, failed |-> inv.out.failed,
                 requests |-> inv.out.requests, stage |-> inv.out.stage,
                 pdf |-> inv.out.pdf,
                 kept |-> SameEntries(inv.out.store, cache) ]
    /\ UNCHANGED <<now, jira, built, bVars, rVars, xVars>>

ServeJiraTool ==
    \E inv \in JiraInvocations(cache, now, jira) : ServerAnswered(inv)

ServeSlackTool ==
    \E inv \in SlackInvocations(cache, now) : ServerAnswered(inv)

ServeUnknownTool ==
    \E inv \in Invocations(cache, now, jira) :
        inv.name = UnknownToolName /\ ServerAnswered(inv)

ServerTick ==
    /\ now + ServerTickStep <= ServerMaxNow
    /\ now' = now + ServerTickStep
    /\ last' = ServerNoCall
    /\ UNCHANGED <<cache, jira, built, bVars, rVars, xVars>>

NextServer ==
    \/ ServeJiraTool
    \/ ServeSlackTool
    \/ ServeUnknownTool
    \/ ServerTick

SpecServer == InitServer /\ [][NextServer]_vars

----------------------------------------------------------------------------
(* Claims about the dispatch of tool calls (SpecServer). They say what a    *)
(* call made in the state at hand comes to, for every reachable state.      *)

\* the response carries a message that is not empty
sHasMessage(resp) ==
    IF "json" \in DOMAIN resp
    THEN "error" \in DOMAIN resp.json /\ resp.json.error # ""
    ELSE Len(resp.plain) >= 2 /\ resp.plain[1] = "Error: "

\* the response carries the name of the tool
sNamesTool(resp, name) ==
    IF "json" \in DOMAIN resp
    THEN "tool" \in DOMAIN resp.json /\ resp.json.tool = name
    ELSE \E i \in 1..Len(resp.plain) : resp.plain[i] = name

sAnsweredUniformly(inv) ==
    /\ inv.out.ended = "returned"
    /\ inv.out.failed => sHasMessage(inv.out.resp) /\ sNamesTool(inv.out.resp, inv.name)

\* C22: every tool invocation, for every tool name and every argument
\* value, ends in a returned response, and the response of an invocation
\* that failed carries a message and the name of the tool.
C22_EveryInvocationAnsweredNamingTool ==
    \A inv \in Invocations(cache, now, jira) : sAnsweredUniformly(inv)

\* the same of the names that handleJiraTool knows
sJiraToolsAnsweredUniformly ==
    \A inv \in JiraInvocations(cache, now, jira) : sAnsweredUniformly(inv)

sAbortedBeforeIO(inv) ==
    ~inv.valid =>
        /\ inv.out.failed
        /\ inv.out.requests = 0
        /\ SameEntries(inv.out.store, cache)

\* C23: for every tool, a call whose arguments violate the tool's schema is
\* answered with an error before any upstream request is issued and with
\* every cache entry as it was.
C23_MalformedInputAbortsBeforeIO ==
    \A inv \in Invocations(cache, now, jira) : sAbortedBeforeIO(inv)

\* the same of the names that handleJiraTool knows
sJiraToolsAbortBeforeIO ==
    \A inv \in JiraInvocations(cache, now, jira) : sAbortedBeforeIO(inv)

\* the answers of the PDF tool called now, and of the report tool called now
\* with the arguments that the PDF tool passes on
sPdfNow(args, script, rendered) ==
    GenerateStandupPdf(cache, now, [jira EXCEPT !.script = script], args, rendered)
sReportNow(args, script) ==
    DailyStandupReport(cache, now, [jira EXCEPT !.script = script],
                       [args EXCEPT !.daysStale = EffectiveDaysStale(@)])

\* generateStandupPDF was invoked: it wrote the file or it threw
sRendererInvoked(o) == o.pdf \in {"rendered", "failed"}

\* C24: the PDF tool invokes the renderer only with a report that the report
\* tool answered for the same arguments; when its arguments are invalid or
\* the report tool answers an error (no active sprint, upstream failure), it
\* returns an error response, the renderer is not invoked and no file is
\* written.
C24_RendererOnlyAfterReport ==
    \A args \in BoardArgsTried, script \in FetchScripts, rendered \in BOOLEAN :
        \A o \in sPdfNow(args, script, rendered) :
            /\ sRendererInvoked(o) =>
                  /\ ValidReportArgs(args)
                  /\ ~HasErrorProperty(JsonParse(o.inner))
                  /\ \E r \in sReportNow(args, script) :
                        r.stage \in {"hit", "done"} /\ r.resp = o.inner
            /\ (~ValidReportArgs(args) \/ o.stage \notin {"hit", "done"}) =>
                  /\ ~sRendererInvoked(o)
                  /\ HasErrorProperty(JsonParse(o.resp))
                  /\ JsonParse(o.resp).tool = "jira_generate_standup_pdf"

\* the PDF tool was called for a board without active sprint: the report
\* step answered an error and the renderer was not invoked
C24_Witness ==
    /\ last.name = "jira_generate_standup_pdf"
    /\ last.valid
    /\ last.stage = "nosprint"
    /\ last.failed
    /\ last.pdf = "nodata"

\* C25: a standup report asked for with includeUnassigned false lists no
\* unassigned issue.
C25_UnassignedOmittedWhenNotIncluded ==
    \A args \in ReportArgsTried, script \in FetchScripts :
        ~args.includeUnassigned =>
            \A o \in DailyStandupReport(cache, now, [jira EXCEPT !.script = script], args) :
                o.stage \in {"hit", "done"} => JsonParse(o.resp).unassignedIssues = <<>>

\* jira_update_issue called now
sUpdateNow(args, script) == UpdateIssue(cache, now, script, args)

\* the upstream accepts the update within the attempts of the retry
sUpdateAccepted(script) ==
    \E n \in 1..RetryMaxAttempts :
        /\ n <= Len(script)
        /\ script[n] = 200
        /\ \A m \in 1..(n - 1) : script[m] \in {429} \cup (500..599)

sIssueEntryKey(issueKey) == <<"sprint", "issue", issueKey>>

\* C26: after a successful jira_update_issue the cache holds no entry of the
\* issue and every other entry as before; an update that fails, by its
\* arguments or upstream, leaves every cache entry as it was.
C26_UpdateInvalidatesOnlyAfterSuccess ==
    \A args \in UpdateArgsTried, script \in ToolScripts :
        LET o == sUpdateNow(args, script) IN
        /\ o.failed = ~(ValidUpdateArgs(args) /\ sUpdateAccepted(script))
        /\ o.failed => SameEntries(o.store, cache)
        /\ ~o.failed =>
              /\ o.requests >= 1
              /\ ~tHolds(o.store, sIssueEntryKey(args.issueKey))
              /\ SameEntries(o.store,
                             SelectSeq(cache, LAMBDA entry :
                                          entry.key # sIssueEntryKey(args.issueKey)))

\* an update that the upstream accepted at the second attempt was answered
\* while the cache held entries
C26_Witness ==
    /\ last.name = "jira_update_issue"
    /\ ~last.failed
    /\ last.requests = 2
    /\ last.kept
    /\ Len(cache) >= 2

----------------------------------------------------------------------------
(* SpecStartup: the start of the server. index.ts imports jira-handler.ts,  *)
(* which imports the config module, whose last statement constructs the     *)
(* ConfigManager: a throw there ends the process before the server          *)
(* connects.                                                                *)
(*   env    per variable name its value; Unset when it is not defined       *)
(*   boot   "starting", "running" or "failed", and the names reported       *)
(*          missing                                                         *)

Unset == "<unset>"

\* private readonly requiredKeys
RequiredKeys == {"JIRA_BASE_URL", "JIRA_EMAIL", "JIRA_API_TOKEN", "SLACK_BOT_TOKEN"}

EnvValuesTried(key) ==
    IF key = "JIRA_BASE_URL"
    THEN {Unset, "", "jira", "https://x.atlassian.net"}
    ELSE {Unset, "", " ", "secret"}

\* String.prototype.trim on the values tried
Trim(value) == IF value = " " THEN "" ELSE value

\* isValidUrl: new URL(url) does not throw
IsValidUrl(url) == url = "https://x.atlassian.net"

\* !value || value.trim() === ''
IsMissing(value) == value = Unset \/ value = "" \/ Trim(value) = ""

\* ConfigManager.validateAndLoadConfig
ValidateAndLoadConfig(e) ==
    LET missing == { key \in RequiredKeys : IsMissing(e[key]) } IN
    IF missing # {} THEN [ok |-> FALSE, missing |-> missing]
    ELSE IF ~IsValidUrl(Trim(e["JIRA_BASE_URL"])) THEN [ok |-> FALSE, missing |-> {}]
    ELSE [ok |-> TRUE, missing |-> {}]

InitStartup ==
    /\ env \in { e \in [RequiredKeys -> UNION {EnvValuesTried(key) : key \in RequiredKeys}] :
                    \A key \in RequiredKeys : e[key] \in EnvValuesTried(key) }
    /\ boot = [state |-> "starting", missing |-> {}]
    /\ BuilderIdle
    /\ RetryIdle
    /\ MainIdle
    /\ GatewayIdle
    /\ ManagerIdle
    /\ CallsIdle

\* the module of the configuration is evaluated, and the server connects
LoadConfig ==
    /\ boot.state = "starting"
    /\ LET loaded == ValidateAndLoadConfig(env) IN
       boot' = [ state |-> IF loaded.ok THEN "running" ELSE "failed",
                 missing |-> loaded.missing ]
    /\ UNCHANGED <<env, qCall, qDone, bVars, rVars, mVars, tVars, cVars>>

NextStartup == LoadConfig

SpecStartup == InitStartup /\ [][NextStartup]_vars

uJiraConfigured ==
    /\ \A key \in {"JIRA_EMAIL", "JIRA_API_TOKEN"} : ~IsMissing(env[key])
    /\ IsValidUrl(Trim(env["JIRA_BASE_URL"]))

\* C28: with the Jira base URL, email and API token configured and the
\* Slack bot token absent, the start of the server succeeds.
C28_StartsWithoutSlackToken ==
    (boot.state # "starting" /\ uJiraConfigured /\ env["SLACK_BOT_TOKEN"] = Unset)
        => boot.state = "running"

\* with all four variables set the server starts, and with a Jira variable
\* missing it does not
uStartsWhenAllConfigured ==
    boot.state # "starting" =>
        (boot.state = "running") =
            (uJiraConfigured /\ ~IsMissing(env["SLACK_BOT_TOKEN"]))

----------------------------------------------------------------------------
(* SpecCalls: two calls that overlap on sprintCache. A call is getOrSet of  *)
(* the CacheManager or getSprintTickets of the handlers: it looks its key   *)
(* up, and on a miss awaits its factory (the pages of the upstream) and     *)
(* stores what that yielded. Between the lookup and the store the event     *)
(* loop runs the steps of the other call.                                   *)
(*   qCall   per call: its kind and key, its position ("idle", "awaiting",  *)
(*           "done"), whether its lookup missed, whether its factory was    *)
(*           invoked, whether it ended well, and what it returned           *)
(*   qDone   the calls that completed, in the order of their completion     *)

CallsTickStep == 400
CallsMaxNow == 400

CallIds == {1, 2}

\* the kinds of call: the key looked up, the ttlSeconds passed to set (0:
\* none), and what the factory or the upstream can yield
CallKinds ==
    { [ kind |-> "getOrSet", key |-> <<"k">>, ttl |-> 0,
        yields |-> {<<"v">>, <<"w">>} ],
      [ kind |-> "getSprintTickets", key |-> CacheKeySprintIssues(7),
        ttl |-> SprintIssuesTTL, yields |-> {IssuesEarly, IssuesLate} ] }

CallIdle ==
    [ kind |-> "none", key |-> <<>>, ttl |-> 0, pc |-> "idle", missed |-> FALSE,
      invoked |-> FALSE, ok |-> FALSE, ret |-> <<>> ]

InitCalls ==
    /\ cache = <<>>
    /\ now = 0
    /\ qCall = [p \in CallIds |-> CallIdle]
    /\ qDone = <<>>
    /\ jira = <<>>
    /\ last = <<>>
    /\ built = <<>>
    /\ BuilderIdle
    /\ RetryIdle
    /\ GatewayIdle
    /\ ManagerIdle
    /\ StartupIdle

\* the call is made: the lookup, and on a miss the factory is invoked and
\* awaited
CallBegins ==
    \E p \in CallIds, k \in CallKinds :
        LET got == CacheGet(cache, SprintCacheConfig, k.key, now) IN
        /\ qCall[p].pc = "idle"
        /\ cache' = got.store
        /\ IF got.hit
           THEN /\ qCall' = [qCall EXCEPT ![p] =
                               [ kind |-> k.kind, key |-> k.key, ttl |-> k.ttl,
                                 pc |-> "done", missed |-> FALSE, invoked |-> FALSE,
                                 ok |-> TRUE, ret |-> got.data ]]
                /\ qDone' = Append(qDone, p)
           ELSE /\ qCall' = [qCall EXCEPT ![p] =
                               [ kind |-> k.kind, key |-> k.key, ttl |-> k.ttl,
                                 pc |-> "awaiting", missed |-> TRUE, invoked |-> TRUE,
                                 ok |-> FALSE, ret |-> <<>> ]]
                /\ qDone' = qDone
        /\ UNCHANGED <<now, jira, last, built, env, boot, bVars, rVars, tVars, cVars>>

\* the factory resolves: its value is stored and returned
CallFinishes ==
    \E p \in CallIds :
        /\ qCall[p].pc = "awaiting"
        /\ \E k \in CallKinds :
              /\ k.kind = qCall[p].kind
              /\ \E data \in k.yields :
                    /\ cache' = CacheSet(cache, SprintCacheConfig, qCall[p].key, data,
                                         qCall[p].ttl, now)
                    /\ qCall' = [qCall EXCEPT ![p].pc = "done", ![p].ok = TRUE,
                                              ![p].ret = data]
        /\ qDone' = Append(qDone, p)
        /\ UNCHANGED <<now, jira, last, built, env, boot, bVars, rVars, tVars, cVars>>

\* the factory rejects: the call throws and stores nothing
CallFails ==
    \E p \in CallIds :
        /\ qCall[p].pc = "awaiting"
        /\ qCall' = [qCall EXCEPT ![p].pc = "done"]
        /\ qDone' = Append(qDone, p)
        /\ UNCHANGED <<cache, now, jira, last, built, env, boot, bVars, rVars, tVars, cVars>>

\* both callers have their answers
CallsReturn ==
    /\ \A p \in CallIds : qCall[p].pc = "done"
    /\ qCall' = [p \in CallIds |-> CallIdle]
    /\ qDone' = <<>>
    /\ UNCHANGED <<cache, now, jira, last, built, env, boot, bVars, rVars, tVars, cVars>>

CallsTick ==
    /\ now + CallsTickStep <= CallsMaxNow
    /\ now' = now + CallsTickStep
    /\ UNCHANGED <<cache, qCall, qDone, jira, last, built, env, boot,
                   bVars, rVars, tVars, cVars>>

NextCalls ==
    \/ CallBegins
    \/ CallFinishes
    \/ CallFails
    \/ CallsReturn
    \/ CallsTick

SpecCalls == InitCalls /\ [][NextCalls]_vars

\* the calls that stored a value under the key, in the order of completion
qStored(key) ==
    SelectSeq(qDone, LAMBDA p :
                 qCall[p].key = key /\ qCall[p].missed /\ qCall[p].ok)

qEntryData(key) ==
    tEntry(cache, GetFullKey(SprintCacheConfig, key)).data

\* both calls were for the same key, both missed and both stored
qBothStored ==
    /\ Len(qDone) = 2
    /\ \A p \in CallIds : qCall[p].missed /\ qCall[p].ok
    /\ qCall[1].key = qCall[2].key

\* C30: a call whose lookup misses always invokes its factory, whether or
\* not another call for the same key is awaiting its own: misses are not
\* coalesced. The entry of a key holds what the call that completed last
\* stored under it, so when two overlapping calls both missed, the entry is
\* the value of the one that finished last.
C30_MissesNotCoalescedLastWriterWins ==
    /\ \A p \in CallIds :
          /\ qCall[p].pc # "idle" => qCall[p].invoked = qCall[p].missed
          /\ (qCall[p].pc = "done" /\ ~qCall[p].missed) => qCall[p].ok
    /\ \A k \in CallKinds :
          LET stored == qStored(k.key) IN
          (stored # <<>> /\ tHolds(cache, GetFullKey(SprintCacheConfig, k.key)))
              => qEntryData(k.key) = qCall[stored[Len(stored)]].ret
    /\ qBothStored =>
          /\ tHolds(cache, GetFullKey(SprintCacheConfig, qCall[1].key))
          /\ qEntryData(qCall[1].key) = qCall[qDone[2]].ret

\* two calls of getSprintTickets for the same sprint both missed, both asked
\* the upstream, and got different lists: the cache holds the list of the
\* call that finished last, not that of the other
C30_Witness ==
    /\ qBothStored
    /\ qCall[1].kind = "getSprintTickets"
    /\ \A p \in CallIds : qCall[p].invoked
    /\ qCall[1].ret # qCall[2].ret
    /\ qEntryData(qCall[1].key) = qCall[qDone[2]].ret
    /\ qEntryData(qCall[1].key) # qCall[qDone[1]].ret

----------------------------------------------------------------------------
(* SpecPages: getSprintTickets with every upstream request a step of its    *)
(* own. Each page of getSprintTicketsPaginated is one call of               *)
(* RetryHelper.retry, whose frame is rAttempt, rDelay, rLog and rWaits;     *)
(* `last` keeps, for the call at hand, one record [startAt, log, waits] per *)
(* retry call that has ended, and tResult.requests counts the requests.     *)

PageStatusesTried == {200, 429, 503, 404}

\* mutant: the attempt counter and the delay of the previous page go on
RetryEntryCarriedOver(opts, attempt, delay) ==
    [ attempt |-> IF attempt = 0 THEN 1 ELSE attempt,
      delay |-> IF attempt = 0 THEN opts.initialDelay ELSE delay ]

\* let delay = initialDelay; for (let attempt = 1; ...): what the frame of
\* the caller's previous retry call held does not enter
RetryEntry(opts, attempt, delay) ==
    [ attempt |-> 1, delay |-> opts.initialDelay ]

PageRetryEnded(startAt, log, waits) ==
    [ startAt |-> startAt, log |-> log, waits |-> waits ]

InitPages ==
    /\ cache = <<>>
    /\ now = 0
    /\ \E total \in 0..MaxTotal :
          jira = [ sprints |-> (1 :> <<ActiveSprint42, NextSprint43>> @@ 2 :> <<>>),
                   issues |-> (7 :> GatewayIssues(total)) ]
    /\ last = <<>>
    /\ built = <<>>
    /\ tPc = "idle"
    /\ tStartAt = 0
    /\ tTotal = 0
    /\ tAllIssues = <<>>
    /\ tFetched = <<>>
    /\ tBefore = <<>>
    /\ tResult = NoGatewayCall
    /\ tSprintAt = -1
    /\ rOpts = GatewayRetryOptions
    /\ rPc = "idle"
    /\ rAttempt = 0
    /\ rDelay = 0
    /\ rLog = <<>>
    /\ rWaits = <<>>
    /\ rResult = <<>>
    /\ BuilderIdle
    /\ ManagerIdle
    /\ StartupIdle
    /\ CallsIdle

\* getSprintTickets(7) up to the first request: the cache lookup, and on a
\* miss the generator's first call of retry
PagesCall ==
    /\ tPc = "idle"
    /\ LET got == CacheGet(cache, SprintCacheConfig, CacheKeySprintIssues(7), now)
           entry == RetryEntry(rOpts, 0, 0)
       IN /\ cache' = got.store
          /\ IF got.hit
             THEN /\ tResult' = [ op |-> "tickets", boardId |-> 0, ok |-> TRUE,
                                  cached |-> TRUE, found |-> TRUE, value |-> got.data,
                                  error |-> NoError, requests |-> 0 ]
                  /\ tPc' = "idle"
                  /\ rPc' = "idle"
                  /\ rAttempt' = 0
                  /\ rDelay' = 0
             ELSE /\ tResult' = TicketsRunning
                  /\ tPc' = "page"
                  /\ rPc' = "attempt"
                  /\ rAttempt' = entry.attempt
                  /\ rDelay' = entry.delay
    /\ rLog' = <<>>
    /\ rWaits' = <<>>
    /\ last' = <<>>
    /\ tStartAt' = 0
    /\ tTotal' = 0
    /\ tAllIssues' = <<>>
    /\ tFetched' = <<>>
    /\ tBefore' = cache
    /\ UNCHANGED <<now, jira, built, tSprintAt, rOpts, rResult, bVars, cVars, yVars>>

\* the request of the page at tStartAt is answered with 200: retry returns,
\* the batch is pushed, and either the loop calls retry for the next page or
\* the generator ends and the list is cached and returned
PageAttemptReturns ==
    /\ tPc = "page"
    /\ rPc = "attempt"
    /\ rAttempt <= rOpts.maxAttempts
    /\ LET data == PageResponse(jira.issues[7], tStartAt, PageSize)
           allIssues == tAllIssues \o data.issues
           startAt == tStartAt + PageSize
           log == Append(rLog, Succeeded("page"))
           entry == RetryEntry(rOpts, rAttempt, rDelay)
       IN /\ last' = Append(last, PageRetryEnded(tStartAt, log, rWaits))
          /\ tFetched' = Append(tFetched, tStartAt)
          /\ IF MorePages(startAt, data.total)
             THEN /\ tAllIssues' = allIssues
                  /\ tStartAt' = startAt
                  /\ tTotal' = data.total
                  /\ tResult' = [tResult EXCEPT !.requests = @ + 1]
                  /\ rAttempt' = entry.attempt
                  /\ rDelay' = entry.delay
                  /\ rLog' = <<>>
                  /\ rWaits' = <<>>
                  /\ UNCHANGED <<cache, tPc, rPc>>
             ELSE /\ FrameGone
                  /\ cache' = CacheSet(cache, SprintCacheConfig,
                                       CacheKeySprintIssues(7), allIssues,
                                       SprintIssuesTTL, now)
                  /\ tPc' = "idle"
                  /\ tResult' = [ op |-> "tickets", boardId |-> 0, ok |-> TRUE,
                                  cached |-> FALSE, found |-> TRUE,
                                  value |-> allIssues, error |-> NoError,
                                  requests |-> tResult.requests + 1 ]
                  /\ rPc' = "returned"
                  /\ rLog' = log
                  /\ UNCHANGED <<rAttempt, rDelay, rWaits>>
    /\ UNCHANGED <<now, jira, built, tBefore, tSprintAt, rOpts, rResult,
                   bVars, cVars, yVars>>

\* the request is answered with an error status: retry rethrows, and the
\* error leaves getSprintTickets, or retry starts the backoff wait
PageAttemptThrows ==
    /\ tPc = "page"
    /\ rPc = "attempt"
    /\ rAttempt <= rOpts.maxAttempts
    /\ \E status \in PageStatusesTried \ {200} :
          LET o == Failed("http", status, FromAxiosError(status))
              log == Append(rLog, o)
          IN /\ rLog' = log
             /\ IF IsFinalFailure(rOpts, o.error, rAttempt)
                THEN /\ rPc' = "thrown"
                     /\ last' = Append(last, PageRetryEnded(tStartAt, log, rWaits))
                     /\ tResult' = [ op |-> "tickets", boardId |-> 0, ok |-> FALSE,
                                     cached |-> FALSE, found |-> FALSE,
                                     value |-> <<>>, error |-> o.error,
                                     requests |-> tResult.requests + 1 ]
                     /\ cache' = StoreAfterPageFailure(cache, 7, tAllIssues, now)
                     /\ tPc' = "idle"
                     /\ FrameGone
                ELSE /\ rPc' = "sleep"
                     /\ tResult' = [tResult EXCEPT !.requests = @ + 1]
                     /\ UNCHANGED <<cache, last, tPc, tStartAt, tTotal, tAllIssues>>
    /\ UNCHANGED <<now, jira, built, tFetched, tBefore, tSprintAt, rOpts, rAttempt,
                   rDelay, rWaits, rResult, bVars, cVars, yVars>>

\* the timer of the backoff wait fires: delay grows, and the loop goes on
\* with attempt + 1
PageRetryWake ==
    /\ tPc = "page"
    /\ rPc = "sleep"
    /\ rWaits' = Append(rWaits, rDelay)
    /\ rDelay' = NextDelay(rOpts, rDelay)
    /\ rAttempt' = rAttempt + 1
    /\ rPc' = "attempt"
    /\ UNCHANGED <<rOpts, rLog, rResult, mVars, tVars, bVars, cVars, yVars>>

NextPages ==
    \/ PagesCall
    \/ PageAttemptReturns
    \/ PageAttemptThrows
    \/ PageRetryWake

SpecPages == InitPages /\ [][NextPages]_vars

----------------------------------------------------------------------------
(* Claims about the pages' retry calls (SpecPages).                         *)

\* the retry calls of the getSprintTickets call at hand: those that ended,
\* and the one in progress
pCalls ==
    IF tPc = "page" THEN Append(last, PageRetryEnded(tStartAt, rLog, rWaits))
    ELSE last

\* the retry call failed for good: 3 failures in a row, or a failure that
\* shouldRetry rejects
pFailedForGood(call) ==
    LET n == Len(call.log) IN
    /\ n >= 1
    /\ \A i \in 1..n : ~call.log[i].ok
    /\ \/ n = RetryMaxAttempts
       \/ ~DefaultShouldRetry(call.log[n].error)

\* the waits of a retry call are those of a call that starts from
\* initialDelay: 1000, 2000
pFreshWaits(call) ==
    /\ Len(call.waits) <= Len(call.log)
    /\ \A k \in 1..Len(call.waits) : call.waits[k] = rBackoff(k)

\* C31: every page of a getSprintTickets call is fetched by a retry call of
\* its own budget and backoff: whatever the earlier pages absorbed, a page
\* gets up to 3 attempts and waits initialDelay after its first failure, so
\* that P pages make at most 3 * P requests; and the call fails only when
\* one page fails 3 times in a row or fails with an error that is not
\* retried.
C31_EachPageHasFreshRetryBudget ==
    /\ \A i \in 1..Len(pCalls) :
          /\ pCalls[i].startAt = (i - 1) * PageSize
          /\ Len(pCalls[i].log) <= RetryMaxAttempts
          /\ pFreshWaits(pCalls[i])
          /\ \A k \in 1..Len(pCalls[i].log) :
                (k < Len(pCalls[i].log) \/ (i = Len(pCalls) /\ rPc = "sleep"))
                    => /\ ~pCalls[i].log[k].ok
                       /\ DefaultShouldRetry(pCalls[i].log[k].error)
                       /\ k < RetryMaxAttempts
    /\ tResult.requests <= RetryMaxAttempts * Len(pCalls)
    /\ tPc = "page" /\ rPc = "attempt" =>
          /\ rAttempt = Len(rLog) + 1
          /\ rDelay = rBackoff(rAttempt)
    /\ tFailed => /\ last # <<>>
                  /\ pFailedForGood(last[Len(last)])
                  /\ \A i \in 1..(Len(last) - 1) : last[i].log[Len(last[i].log)].ok

\* two pages in a row, each fetched at its third attempt after waits of
\* 1000 and 2000 ms: six requests for two pages
C31_Witness ==
    /\ tFetchedAll
    /\ Len(last) = 2
    /\ tResult.requests = 2 * RetryMaxAttempts
    /\ \A i \in 1..2 : /\ Len(last[i].log) = RetryMaxAttempts
                       /\ last[i].waits = <<RetryInitialDelay, 2000>>

----------------------------------------------------------------------------
(* SpecSweep: one CacheManager with its interval timer. The clock stops at  *)
(* every time the timer is due, and the timer's callback runs before the    *)
(* clock goes on: WF of the clock and of the callback are what the event    *)
(* loop gives a timer that was not cleared.                                 *)

\* the seconds the clock advances in one step, when no timer is due earlier
SweepTickStep == 20

\* the last second the clock reaches
SweepMaxNow == 200

SweepKeysTried == {<<"a">>, <<"b">>}
SweepTtlsTried == {10, 60}

NoSweep == [op |-> "none", removed |-> 0, at |-> 0]

InitSweep ==
    /\ cConfig = [prefix |-> "", ttl |-> 300, maxSize |-> MaxCap]
    /\ cache = <<>>
    /\ now = 0
    /\ cHits = 0
    /\ cMisses = 0
    /\ cLast = NoSweep
    /\ cleanupInterval = IntervalTimer(now)
    /\ jira = <<>>
    /\ last = <<>>
    /\ built = <<>>
    /\ BuilderIdle
    /\ RetryIdle
    /\ GatewayIdle
    /\ StartupIdle
    /\ CallsIdle

\* set(key, data, ttl), while the clock can still reach the sweep that
\* follows the entry's expiry
SweepSet ==
    /\ \E key \in SweepKeysTried, ttl \in SweepTtlsTried :
          /\ now + ttl + SweepInterval <= SweepMaxNow
          /\ cache' = CacheSet(cache, cConfig, key, "v", ttl, now)
    /\ cLast' = NoSweep
    /\ UNCHANGED <<cConfig, cleanupInterval, cHits, cMisses, now, jira, last, built,
                   bVars, rVars, tVars, yVars>>

\* get(key)
SweepGet ==
    /\ cHits + cMisses < MaxCount
    /\ \E key \in SweepKeysTried :
          LET got == CacheGet(cache, cConfig, key, now) IN
          /\ cache' = got.store
          /\ Counted(got.hit)
    /\ cLast' = NoSweep
    /\ UNCHANGED <<cConfig, cleanupInterval, now, jira, last, built,
                   bVars, rVars, tVars, yVars>>

\* the interval timer fires: this.cleanup(), and the timer is due again
\* 60 s later
SweepRuns ==
    /\ cleanupInterval.active
    /\ now >= cleanupInterval.due
    /\ cache' = CacheCleanup(cache, now)
    /\ cleanupInterval' = [cleanupInterval EXCEPT !.due = @ + SweepInterval]
    /\ cLast' = [ op |-> "cleanup", removed |-> Len(cache) - Len(cache'),
                  at |-> now ]
    /\ UNCHANGED <<cConfig, cHits, cMisses, now, jira, last, built,
                   bVars, rVars, tVars, yVars>>

\* destroy(): clearInterval, cleanupInterval = null, clear()
SweepDestroy ==
    /\ cleanupInterval' = [cleanupInterval EXCEPT !.active = FALSE]
    /\ cache' = <<>>
    /\ cHits' = 0
    /\ cMisses' = 0
    /\ cLast' = [op |-> "destroy", removed |-> Len(cache), at |-> now]
    /\ UNCHANGED <<cConfig, now, jira, last, built, bVars, rVars, tVars, yVars>>

\* time passes, up to the next time the timer is due
SweepTick ==
    /\ now < SweepMaxNow
    /\ ~(cleanupInterval.active /\ now >= cleanupInterval.due)
    /\ LET later == IF now + SweepTickStep < SweepMaxNow
                    THEN now + SweepTickStep ELSE SweepMaxNow
       IN now' = IF cleanupInterval.active /\ cleanupInterval.due < later
                 THEN cleanupInterval.due ELSE later
    /\ cLast' = NoSweep
    /\ UNCHANGED <<cConfig, cleanupInterval, cHits, cMisses, cache, jira, last, built,
                   bVars, rVars, tVars, yVars>>

NextSweep ==
    \/ SweepSet
    \/ SweepGet
    \/ SweepRuns
    \/ SweepDestroy
    \/ SweepTick

SpecSweep ==
    InitSweep /\ [][NextSweep]_vars /\ WF_vars(SweepRuns) /\ WF_vars(SweepTick)

----------------------------------------------------------------------------
(* Claims about the background sweep (SpecSweep).                           *)

\* the entry of the key is held although it has expired
wExpiredHeld(key) ==
    \E i \in 1..Len(cache) : cache[i].key = key /\ now > cache[i].expiry

\* a step of the sweep removes the expired entries and no other: what is
\* left are the entries of now <= expiry, in their order
wRunRemovesExactlyExpired ==
    cLast'.op = "cleanup" =>
        /\ cleanupInterval.active
        /\ now >= cleanupInterval.due
        /\ \A i \in 1..Len(cache') : ~(now > cache'[i].expiry)
        /\ \A i \in 1..Len(cache) :
              (now <= cache[i].expiry) => \E j \in 1..Len(cache') : cache'[j] = cache[i]
        /\ Len(cache') <= Len(cache)

\* the timer is due every 60 s from the construction on
wDueEveryInterval ==
    cleanupInterval.active =>
        /\ cleanupInterval.due % SweepInterval = 0
        /\ now <= cleanupInterval.due
        /\ cleanupInterval.due - now <= SweepInterval

\* destroy() leaves the store empty and the timer cleared, and a cleared
\* timer never fires again
wDestroyStopsTheSweep ==
    /\ cLast'.op = "destroy" => cache' = <<>> /\ ~cleanupInterval'.active
    /\ ~cleanupInterval.active =>
          /\ ~cleanupInterval'.active
          /\ cLast'.op # "cleanup"

\* C32: while the store is not destroyed the sweep runs every 60 s; a run
\* removes every entry with now > expiry and no other entry, so that an
\* expired entry is eventually removed although nothing reads it; destroy()
\* empties the store, and after it the sweep never runs again.
C32_SweepRemovesExpiredUntilDestroyed ==
    /\ [][wRunRemovesExactlyExpired /\ wDestroyStopsTheSweep /\ wDueEveryInterval']_vars
    /\ \A key \in SweepKeysTried :
          (wExpiredHeld(key) /\ cleanupInterval.active)
              ~> (~wExpiredHeld(key) \/ ~cleanupInterval.active)

\* the sweep has just removed one expired entry that no get ever read, and
\* kept the other entry, which has not expired
C32_Witness ==
    /\ cLast.op = "cleanup"
    /\ cLast.removed = 1
    /\ cHits + cMisses = 0
    /\ Len(cache) = 1
    /\ now <= cache[1].expiry

----------------------------------------------------------------------------
(* SpecPattern: invalidatePattern applied to stores whose full keys are     *)
(* texts, character by character, under patterns over the same characters.  *)

\* the longest pattern tried
MaxPatternLen == 2

PatternChars == {"a", "b", ".", "*", "?"}

PatternsTried == UNION {[1..n -> PatternChars] : n \in 0..MaxPatternLen}

PatternPrefixes == {<<>>, <<"s">>}

\* the keys handed to set, in the order in which they were stored
PatternKeys == << <<"a">>, <<"a", "b">>, <<"a", ".">>, <<"a", LineFeed>>, <<"b">> >>

\* getFullKey: `${prefix}:${key}`, or the key when there is no prefix
GetFullKeyText(prefix, key) ==
    IF prefix # <<>> THEN prefix \o <<":">> \o key ELSE key

NoPatternCall == [op |-> "none", pattern |-> <<>>, ret |-> 0, before |-> <<>>]

InitPattern ==
    /\ cConfig \in [prefix : PatternPrefixes, ttl : {300}, maxSize : {1000}]
    /\ \E held \in SUBSET (1..Len(PatternKeys)) :
          cache = [ i \in 1..Cardinality(held) |->
                      LET k == CHOOSE k \in held :
                                  Cardinality({h \in held : h < k}) = i - 1
                      IN [ key |-> GetFullKeyText(cConfig.prefix, PatternKeys[k]),
                           data |-> "v", expiry |-> 300 ] ]
    /\ now = 0
    /\ cHits = 0
    /\ cMisses = 0
    /\ cLast = NoPatternCall
    /\ cleanupInterval = IntervalTimer(now)
    /\ jira = <<>>
    /\ last = <<>>
    /\ built = <<>>
    /\ BuilderIdle
    /\ RetryIdle
    /\ GatewayIdle
    /\ StartupIdle
    /\ CallsIdle

\* invalidatePattern(pattern)
InvalidatePattern ==
    /\ \E pattern \in PatternsTried :
          LET o == CacheInvalidatePattern(cache, pattern) IN
          /\ cache' = o.store
          /\ cLast' = [ op |-> "invalidatePattern", pattern |-> pattern,
                        ret |-> o.ret, before |-> cache ]
    /\ UNCHANGED <<cConfig, cleanupInterval, cHits, cMisses, now, jira, last, built,
                   bVars, rVars, tVars, yVars>>

NextPattern == InvalidatePattern

SpecPattern == InitPattern /\ [][NextPattern]_vars

----------------------------------------------------------------------------
(* Claims about invalidatePattern (SpecPattern).                            *)

\* the pattern from its i-th character on matches, as a glob, the text from
\* its j-th character to its end: '*' is any run of characters, '?' is any
\* one character, every other character is itself
RECURSIVE GlobMatchesFrom(_, _, _, _)
GlobMatchesFrom(pattern, i, text, j) ==
    IF i > Len(pattern) THEN j > Len(text)
    ELSE IF pattern[i] = "*"
    THEN \/ GlobMatchesFrom(pattern, i + 1, text, j)
         \/ j <= Len(text) /\ GlobMatchesFrom(pattern, i, text, j + 1)
    ELSE /\ j <= Len(text)
         /\ pattern[i] = "?" \/ pattern[i] = text[j]
         /\ GlobMatchesFrom(pattern, i + 1, text, j + 1)

GlobMatches(pattern, text) == GlobMatchesFrom(pattern, 1, text, 1)

\* C33: invalidatePattern(p) deletes exactly the entries whose full key
\* matches p as a glob anchored at both ends ('*' any run, '?' any one
\* character, every other character only itself), returns how many it
\* deleted and leaves the other entries and the hit and miss counters as
\* they were.
C33_InvalidatePatternIsGlob ==
    /\ cHits = 0 /\ cMisses = 0
    /\ cLast.op = "invalidatePattern" =>
          /\ cache = SelectSeq(cLast.before,
                               LAMBDA entry : ~GlobMatches(cLast.pattern, entry.key))
          /\ cLast.ret = Len(cLast.before) - Len(cache)

----------------------------------------------------------------------------
(* SpecRender: generateStandupPDF applied to the reports that the builder   *)
(* makes of issue lists long enough to pass the preview caps. A rendered    *)
(* document is                                                              *)
(*   [path, counts, sections, team]                                         *)
(* the Critical Metrics counts, the issue sections in page order, each with *)
(* its rows and its "... and n more" line (more = 0: no line), and the      *)
(* Team Member Summary.                                                     *)

\* the most issues of one kind in the sprint
MaxRows == 21

\* slice(0, 15), slice(0, 20) of generateHTMLReport; slice(0, 10) of PDFKit
HtmlOverdueCap == 15
HtmlStaleCap == 20
PdfKitOverdueCap == 10
PdfKitStaleCap == 10

\* list.slice(0, cap) and the line that follows the table when
\* list.length > cap
IssueSection(name, list, cap) ==
    [ list |-> name,
      rows |-> SubSeq(list, 1, IF Len(list) < cap THEN Len(list) ELSE cap),
      more |-> IF Len(list) > cap THEN Len(list) - cap ELSE 0 ]

\* the sections of the lists that are not empty
SectionsOf(sections) == SelectSeq(sections, LAMBDA s : s.rows # <<>>)

CriticalMetrics(reportData) ==
    [ overdue |-> Len(reportData.overdueIssues),
      stale |-> Len(reportData.staleIssues),
      unassigned |-> Len(reportData.unassignedIssues),
      blocked |-> Len(reportData.blockedIssues) ]

TeamSummary(reportData) ==
    [ i \in 1..Len(reportData.byAssignee) |->
        [ name |-> reportData.byAssignee[i].name,
          total |-> Len(reportData.byAssignee[i].issues),
          stale |-> reportData.byAssignee[i].staleCount,
          overdue |-> reportData.byAssignee[i].overdueCount ] ]

\* generateHTMLReport, printed by Puppeteer
GenerateHTMLReport(reportData) ==
    [ path |-> "puppeteer",
      counts |-> CriticalMetrics(reportData),
      sections |-> SectionsOf(
          << IssueSection("overdue", reportData.overdueIssues, HtmlOverdueCap),
             IssueSection("stale", reportData.staleIssues, HtmlStaleCap) >>),
      team |-> TeamSummary(reportData) ]

\* generatePDFWithPDFKit
GeneratePDFWithPDFKit(reportData) ==
    [ path |-> "pdfkit",
      counts |-> CriticalMetrics(reportData),
      sections |-> SectionsOf(
          << IssueSection("overdue", reportData.overdueIssues, PdfKitOverdueCap),
             IssueSection("stale", reportData.staleIssues, PdfKitStaleCap) >>),
      team |-> TeamSummary(reportData) ]

\* generateStandupPDF: the HTML printed by Puppeteer, or PDFKit when
\* Puppeteer throws
GenerateStandupPDF(reportData, puppeteerWorks) ==
    IF puppeteerWorks THEN GenerateHTMLReport(reportData)
    ELSE GeneratePDFWithPDFKit(reportData)

\* open issues of one kind each, made from the pool's issues
StaleOnlyIssue(i) ==
    [ IssueOfKey("WEB-2") EXCEPT !.duedate = <<>>,
                                 !.updated = DaysAgo(BuilderNow, 3 + (i % 4), 1000) ]
OverdueOnlyIssue(i) ==
    [ IssueOfKey("WEB-2") EXCEPT !.duedate = <<1, i % 10>>,
                                 !.updated = DaysAgo(BuilderNow, 0, 1000) ]
UnassignedOnlyIssue == IssueOfKey("WEB-3")
BlockedOnlyIssue ==
    [ IssueOfKey("API-5") EXCEPT !.updated = DaysAgo(BuilderNow, 0, 1000) ]

RenderIssues(stale, overdue, unassigned, blocked) ==
    [i \in 1..stale |-> StaleOnlyIssue(i)]
    \o [i \in 1..overdue |-> OverdueOnlyIssue(i)]
    \o [i \in 1..unassigned |-> UnassignedOnlyIssue]
    \o [i \in 1..blocked |-> BlockedOnlyIssue]

\* list lengths below, at and above the caps of both paths
StaleCountsTried ==
    {0, 1, PdfKitStaleCap, PdfKitStaleCap + 1, HtmlStaleCap, MaxRows}
OverdueCountsTried ==
    {0, 1, PdfKitOverdueCap, PdfKitOverdueCap + 1, HtmlOverdueCap, MaxRows - 5}

NotRendered == [op |-> "none", path |-> "", counts |-> <<>>, sections |-> <<>>,
                team |-> <<>>]

InitRender ==
    /\ \E stale \in StaleCountsTried, overdue \in OverdueCountsTried,
          unassigned \in 0..1, blocked \in 0..1 :
          bIssues = RenderIssues(stale, overdue, unassigned, blocked)
    /\ bProjectKey = ""
    /\ bDaysStale = 0
    /\ bOut = NotBuilt
    /\ cache = <<>>
    /\ now = 0
    /\ jira = <<>>
    /\ last = NotRendered
    /\ built = <<>>
    /\ RetryIdle
    /\ GatewayIdle
    /\ ManagerIdle
    /\ StartupIdle
    /\ CallsIdle

\* the report of the issues is built and handed to generateStandupPDF
RenderStandupPdf ==
    /\ ~bOut.done
    /\ \E puppeteerWorks \in BOOLEAN :
          LET out == BuildReport(BuilderSprint, bIssues, bProjectKey, bDaysStale,
                                 BuilderNow)
              doc == GenerateStandupPDF(out.report, puppeteerWorks)
          IN /\ out.ok
             /\ bOut' = [done |-> TRUE, ok |-> out.ok, report |-> out.report]
             /\ last' = [ op |-> "render", path |-> doc.path, counts |-> doc.counts,
                          sections |-> doc.sections, team |-> doc.team ]
    /\ UNCHANGED <<bIssues, bProjectKey, bDaysStale, cache, now, jira, built,
                   rVars, xVars>>

NextRender == RenderStandupPdf

SpecRender == InitRender /\ [][NextRender]_vars

----------------------------------------------------------------------------
(* Claims about the rendered document (SpecRender).                         *)

nList(c) ==
    CASE c = "stale" -> bOut.report.staleIssues
      [] c = "overdue" -> bOut.report.overdueIssues
      [] c = "unassigned" -> bOut.report.unassignedIssues
      [] c = "blocked" -> bOut.report.blockedIssues

\* the document has a table of the list: its first rows, and a line that
\* tells how many issues follow them when the table is cut short
nHasTable(c) ==
    \E k \in 1..Len(last.sections) :
        LET s == last.sections[k] IN
        /\ s.list = c
        /\ s.rows = SubSeq(nList(c), 1, Len(s.rows))
        /\ s.more = Len(nList(c)) - Len(s.rows)

nHasTeamCounts ==
    /\ Len(last.team) = Len(bOut.report.byAssignee)
    /\ \A i \in 1..Len(last.team) :
          LET b == bOut.report.byAssignee[i] IN
          last.team[i] = [ name |-> b.name, total |-> Len(b.issues),
                           stale |-> b.staleCount, overdue |-> b.overdueCount ]

\* C34: the document of either render path has, for each of the stale,
\* overdue, unassigned and blocked lists of the report that is not empty, a
\* table of at most the path's preview cap of rows with a line counting the
\* issues beyond the cap, and the issue, stale and overdue counts of every
\* assignee.
C34_BothPathsShowFourTables ==
    last.op = "render" =>
        /\ \A c \in AllCategories : nList(c) # <<>> => nHasTable(c)
        /\ nHasTeamCounts

----------------------------------------------------------------------------
(* SpecOverlap: two tool calls in flight at once on sprint 7 of board 1,    *)
(* each a getSprintTickets call or a build of the standup report. A call    *)
(* runs up to its next upstream request and is resumed when the answer      *)
(* arrives; between the two the other call, the tracker and the clock may   *)
(* go on. qCall[p] is the frame of call p:                                  *)
(*   [kind, pc, startAt, total, allIssues, pages, ok, cached, issues, ret]  *)
(* pages: the answers of its page requests, in order; issues: what          *)
(* getSprintTickets returned to it; ret: what the call returned.            *)

OverlapKinds == {"tickets", "report"}

\* the tracker's lists for sprint 7: issues are moved in and out of the
\* sprint while calls are in flight
OverlapLists ==
    { <<IssueOfKey("WEB-2"), IssueOfKey("API-5")>>,
      <<IssueOfKey("API-4"), IssueOfKey("WEB-3"), IssueOfKey("WEB-2")>> }

OverlapReportArgs == [boardId |-> 1, projectKey |-> "", daysStale |-> 0]

OverlapIdle ==
    [ kind |-> "none", pc |-> "idle", startAt |-> 0, total |-> 0,
      allIssues |-> <<>>, pages |-> <<>>, ok |-> FALSE, cached |-> FALSE,
      issues |-> <<>>, ret |-> <<>> ]

\* the call ends with an error
OverlapThrown(frame) ==
    [frame EXCEPT !.pc = "done", !.ok = FALSE, !.startAt = 0, !.total = 0,
                  !.allIssues = <<>>]

\* getSprintTickets has returned: it was the call itself, or the report
\* handler goes on to build, sort and store the report and returns it
AfterTickets(store, frame, issues, t) ==
    LET ended == [frame EXCEPT !.pc = "done", !.ok = TRUE, !.issues = issues,
                               !.startAt = 0, !.total = 0, !.allIssues = <<>>]
        b == BuildReport(ActiveSprint42, issues, OverlapReportArgs.projectKey,
                         OverlapReportArgs.daysStale, NowMs(t))
    IN IF frame.kind = "tickets"
       THEN [store |-> store, frame |-> [ended EXCEPT !.ret = issues]]
       ELSE IF ~b.ok
       THEN [store |-> store, frame |-> OverlapThrown(frame)]
       ELSE [ store |-> CacheSet(store, SprintCacheConfig,
                                 ReportCacheKey(OverlapReportArgs), b.report,
                                 ReportTTL, t),
              frame |-> [ended EXCEPT !.ret = b.report] ]

\* getSprintTickets(7) up to its first request
TicketsLookup(store, frame, t) ==
    LET got == CacheGet(store, SprintCacheConfig, CacheKeySprintIssues(7), t) IN
    IF got.hit
    THEN AfterTickets(got.store, [frame EXCEPT !.cached = frame.kind = "tickets"],
                      got.data, t)
    ELSE [store |-> got.store, frame |-> [frame EXCEPT !.pc = "page"]]

\* the report handler up to its first request: the report lookup, the
\* sprint lookup and, with the sprint at hand, getSprintTickets
ReportLookup(store, frame, t) ==
    LET got == CacheGet(store, SprintCacheConfig, ReportCacheKey(OverlapReportArgs), t)
        sprint == CacheGet(got.store, SprintCacheConfig, CacheKeySprint(1), t)
    IN IF got.hit
       THEN [ store |-> got.store,
              frame |-> [frame EXCEPT !.pc = "done", !.ok = TRUE, !.cached = TRUE,
                                      !.ret = got.data] ]
       ELSE IF sprint.hit THEN TicketsLookup(sprint.store, frame, t)
       ELSE [store |-> sprint.store, frame |-> [frame EXCEPT !.pc = "sprint"]]

InitOverlap ==
    /\ cache = <<>>
    /\ now = 0
    /\ \E list \in OverlapLists :
          jira = [ sprints |-> (1 :> <<ActiveSprint42>>), issues |-> (7 :> list) ]
    /\ qCall = [p \in CallIds |-> OverlapIdle]
    /\ qDone = <<>>
    /\ last = <<>>
    /\ built = <<>>
    /\ BuilderIdle
    /\ RetryIdle
    /\ GatewayIdle
    /\ ManagerIdle
    /\ StartupIdle

\* a tool call arrives and runs up to its first upstream request
OverlapBegins ==
    \E p \in CallIds, kind \in OverlapKinds :
        LET frame == [OverlapIdle EXCEPT !.kind = kind]
            o == IF kind = "tickets" THEN TicketsLookup(cache, frame, now)
                 ELSE ReportLookup(cache, frame, now)
        IN /\ qCall[p].pc = "idle"
           /\ cache' = o.store
           /\ qCall' = [qCall EXCEPT ![p] = o.frame]
           /\ qDone' = IF o.frame.pc = "done" THEN Append(qDone, p) ELSE qDone
    /\ UNCHANGED <<now, jira, last, built, env, boot, bVars, rVars, tVars, cVars>>

\* the active sprint of the board arrives: it is cached, and the handler
\* goes on with getSprintTickets
OverlapSprintArrives ==
    \E p \in CallIds :
        LET store == CacheSet(cache, SprintCacheConfig, CacheKeySprint(1),
                              jira.sprints[1][1], SprintTTL, now)
            o == TicketsLookup(store, qCall[p], now)
        IN /\ qCall[p].pc = "sprint"
           /\ cache' = o.store
           /\ qCall' = [qCall EXCEPT ![p] = o.frame]
           /\ qDone' = IF o.frame.pc = "done" THEN Append(qDone, p) ELSE qDone
    /\ UNCHANGED <<now, jira, last, built, env, boot, bVars, rVars, tVars, cVars>>

\* a page arrives: the batch is pushed; when it was the last page the list
\* is cached and returned
OverlapPageArrives ==
    \E p \in CallIds :
        LET f == qCall[p]
            data == PageResponse(jira.issues[7], f.startAt, PageSize)
            allIssues == f.allIssues \o data.issues
            startAt == f.startAt + PageSize
            pages == Append(f.pages, [ startAt |-> f.startAt, total |-> data.total,
                                       issues |-> data.issues ])
            o == AfterTickets(CacheSet(cache, SprintCacheConfig,
                                       CacheKeySprintIssues(7), allIssues,
                                       SprintIssuesTTL, now),
                              [f EXCEPT !.pages = pages], allIssues, now)
        IN /\ f.pc = "page"
           /\ IF MorePages(startAt, data.total)
              THEN /\ qCall' = [qCall EXCEPT ![p] =
                                  [f EXCEPT !.startAt = startAt, !.total = data.total,
                                            !.allIssues = allIssues, !.pages = pages]]
                   /\ UNCHANGED <<cache, qDone>>
              ELSE /\ cache' = o.store
                   /\ qCall' = [qCall EXCEPT ![p] = o.frame]
                   /\ qDone' = Append(qDone, p)
    /\ UNCHANGED <<now, jira, last, built, env, boot, bVars, rVars, tVars, cVars>>

\* an upstream request fails for good: the error leaves the call
OverlapRequestFails ==
    \E p \in CallIds :
        /\ qCall[p].pc \in {"sprint", "page"}
        /\ cache' = IF qCall[p].pc = "page"
                    THEN StoreAfterPageFailure(cache, 7, qCall[p].allIssues, now)
                    ELSE cache
        /\ qCall' = [qCall EXCEPT ![p] = OverlapThrown(qCall[p])]
        /\ qDone' = Append(qDone, p)
    /\ UNCHANGED <<now, jira, last, built, env, boot, bVars, rVars, tVars, cVars>>

\* both callers have their answers
OverlapReturns ==
    /\ \A p \in CallIds : qCall[p].pc = "done"
    /\ qCall' = [p \in CallIds |-> OverlapIdle]
    /\ qDone' = <<>>
    /\ UNCHANGED <<cache, now, jira, last, built, env, boot, bVars, rVars, tVars, cVars>>

\* the sprint's issues change upstream
OverlapUpstreamChange ==
    /\ \E list \in OverlapLists \ {jira.issues[7]} :
          jira' = [jira EXCEPT !.issues[7] = list]
    /\ UNCHANGED <<cache, now, qCall, qDone, last, built, env, boot,
                   bVars, rVars, tVars, cVars>>

OverlapTick ==
    /\ now + CallsTickStep <= CallsMaxNow
    /\ now' = now + CallsTickStep
    /\ UNCHANGED <<cache, jira, qCall, qDone, last, built, env, boot,
                   bVars, rVars, tVars, cVars>>

NextOverlap ==
    \/ OverlapBegins
    \/ OverlapSprintArrives
    \/ OverlapPageArrives
    \/ OverlapRequestFails
    \/ OverlapReturns
    \/ OverlapUpstreamChange
    \/ OverlapTick

SpecOverlap == InitOverlap /\ [][NextOverlap]_vars

----------------------------------------------------------------------------
(* Claims about overlapping calls (SpecOverlap).                            *)

oIssuesKey == GetFullKey(SprintCacheConfig, CacheKeySprintIssues(7))
oReportKey == GetFullKey(SprintCacheConfig, ReportCacheKey(OverlapReportArgs))

\* the pages of a call concatenated in the order of their arrival
RECURSIVE oConcat(_)
oConcat(pages) ==
    IF pages = <<>> THEN <<>>
    ELSE oConcat(SubSeq(pages, 1, Len(pages) - 1)) \o pages[Len(pages)].issues

\* the pages are those of one whole run of the generator: offsets 0,
\* PageSize, ... up to the first page that reaches the total
oComplete(pages) ==
    /\ pages # <<>>
    /\ \A i \in 1..Len(pages) :
          /\ pages[i].startAt = (i - 1) * PageSize
          /\ (i < Len(pages)) <=> (pages[i].startAt + PageSize < pages[i].total)

\* the step stores a value under the key
oStores(fullKey) ==
    /\ tHolds(cache', fullKey)
    /\ tHolds(cache, fullKey) => tEntry(cache', fullKey) # tEntry(cache, fullKey)

\* the list is the whole fetch of call p, which ends in this step
oWholeFetchOf(p, list) ==
    /\ qCall[p].pc = "page"
    /\ qCall'[p].pc = "done"
    /\ oComplete(qCall'[p].pages)
    /\ list = oConcat(qCall'[p].pages)

\* the lists that are or were whole fetches of one call: the one cached,
\* and the one a call fetches to its end in this step
oWholeList(list) ==
    \/ tHolds(cache, oIssuesKey) /\ list = tEntry(cache, oIssuesKey).data
    \/ \E p \in CallIds : oWholeFetchOf(p, list)

\* the report is the one the builder makes of the list at this time
oReportOf(report, list) ==
    LET b == BuildReport(ActiveSprint42, list, "", 0, NowMs(now)) IN
    /\ b.ok
    /\ report = b.report
    /\ \A i \in 1..(Len(report.staleIssues) - 1) :
          report.staleIssues[i].daysSinceUpdate
              >= report.staleIssues[i + 1].daysSinceUpdate
    /\ report.summary.totalSprintIssues = Len(list)

\* C35: however two getSprintTickets calls and report builds interleave,
\* a value stored under the sprint-issues key is the pages of one single
\* call, all of them and in order; a value stored under the report key is
\* the report built and sorted from such a list, or from the list cached;
\* and what a call returns is such a list or report, or the value cached.
C35_OnlyWholeResultsOfOneCallStored ==
    [][ /\ oStores(oIssuesKey) =>
              \E p \in CallIds :
                  oWholeFetchOf(p, tEntry(cache', oIssuesKey).data)
        /\ oStores(oReportKey) =>
              \E p \in CallIds :
                  /\ qCall[p].pc # "done" /\ qCall'[p].pc = "done"
                  /\ qCall'[p].kind = "report"
                  /\ oWholeList(qCall'[p].issues)
                  /\ oReportOf(tEntry(cache', oReportKey).data, qCall'[p].issues)
        /\ \A p \in CallIds :
              (qCall[p].pc # "done" /\ qCall'[p].pc = "done" /\ qCall'[p].ok) =>
                  IF qCall'[p].kind = "tickets"
                  THEN oWholeList(qCall'[p].ret)
                  ELSE \/ /\ qCall'[p].cached
                          /\ tHolds(cache, oReportKey)
                          /\ qCall'[p].ret = tEntry(cache, oReportKey).data
                       \/ /\ oWholeList(qCall'[p].issues)
                          /\ oReportOf(qCall'[p].ret, qCall'[p].issues)
      ]_vars

\* a getSprintTickets call and a report build overlapped while the sprint
\* changed upstream: the report build, begun first, fetched its pages around
\* the whole fetch of the other call and stored its own list last
C35_Witness ==
    /\ now = 0
    /\ qDone = <<2, 1>>
    /\ qCall[1].kind = "report" /\ qCall[1].ok /\ ~qCall[1].cached
    /\ qCall[2].kind = "tickets" /\ qCall[2].ok /\ ~qCall[2].cached
    /\ Len(qCall[1].pages) >= 2
    /\ Len(qCall[2].pages) >= 2
    /\ qCall[1].issues # qCall[2].issues
    /\ tEntry(cache, oIssuesKey).data = qCall[1].issues
    /\ tHolds(cache, oReportKey)

----------------------------------------------------------------------------
(* SpecUpdate: jira_update_issue between calls of jira_get_sprint_issues    *)
(* and jira_daily_standup_report on board 1, one call at a time, while the  *)
(* clock advances. An update that the tracker accepts changes the issue     *)
(* upstream. `last` is the call answered in the last step.                  *)

\* the seconds one step of the clock takes, and the last second looked at
UpdateTickStep == 250
UpdateMaxNow == 800

UpdateBoardArgs == [boardId |-> 1, projectKey |-> "", daysStale |-> 0]

\* PUT /issue/{issueKey}: the tracker stamps the issue as updated
IssueTouched(issue, issueKey, t) ==
    IF issue.key = issueKey THEN [issue EXCEPT !.updated = Stamp(NowMs(t))]
    ELSE issue

UpdateNoCall ==
    [ name |-> "none", ok |-> FALSE, requests |-> 0, stage |-> "none",
      afterUpdate |-> FALSE, sprintCached |-> FALSE, issuesCached |-> FALSE ]

InitUpdate ==
    /\ cache = <<>>
    /\ now = 0
    /\ jira = [ sprints |-> (1 :> <<ActiveSprint42>> @@ 2 :> <<>>),
                issues |-> (7 :> ServerIssues) ]
    /\ last = UpdateNoCall
    /\ built = <<>>
    /\ BuilderIdle
    /\ RetryIdle
    /\ ExtraIdle

\* a sprint tool has answered
UpdateAnswered(name, o) ==
    /\ cache' = o.store
    /\ last' = [ name |-> name, ok |-> o.stage \in {"hit", "done"},
                 requests |-> o.requests, stage |-> o.stage,
                 afterUpdate |-> last.name = "jira_update_issue" /\ last.ok,
                 sprintCached |-> o.sprintCached, issuesCached |-> o.issuesCached ]
    /\ UNCHANGED <<now, jira, built, bVars, rVars, xVars>>

ServeGetSprintIssues ==
    \E script \in FetchScripts :
        \E o \in GetSprintIssues(cache, now, Upstream(script), UpdateBoardArgs) :
            UpdateAnswered("jira_get_sprint_issues", o)

ServeDailyStandupReport ==
    \E script \in FetchScripts :
        \E o \in DailyStandupReport(cache, now, Upstream(script), UpdateBoardArgs) :
            UpdateAnswered("jira_daily_standup_report", o)

ServeUpdateIssue ==
    \E script \in ToolScripts, args \in UpdateArgsTried :
        LET o == UpdateIssue(cache, now, script, args) IN
        /\ cache' = o.store
        /\ jira' = IF o.failed THEN jira
                   ELSE [jira EXCEPT !.issues[7] =
                            [i \in 1..Len(@) |-> IssueTouched(@[i], args.issueKey, now)]]
        /\ last' = [ name |-> "jira_update_issue", ok |-> ~o.failed,
                     requests |-> o.requests, stage |-> o.stage,
                     afterUpdate |-> FALSE, sprintCached |-> FALSE,
                     issuesCached |-> FALSE ]
        /\ UNCHANGED <<now, built, bVars, rVars, xVars>>

UpdateTick ==
    /\ now + UpdateTickStep <= UpdateMaxNow
    /\ now' = now + UpdateTickStep
    /\ last' = UpdateNoCall
    /\ UNCHANGED <<cache, jira, built, bVars, rVars, xVars>>

NextUpdate ==
    \/ ServeGetSprintIssues
    \/ ServeDailyStandupReport
    \/ ServeUpdateIssue
    \/ UpdateTick

SpecUpdate == InitUpdate /\ [][NextUpdate]_vars

----------------------------------------------------------------------------
(* Claims about reads that follow an update (SpecUpdate). They are stated   *)
(* of every update the tracker accepts in the state at hand and of every    *)
(* read made on the store that the update leaves.                           *)

uSprintKey == GetFullKey(SprintCacheConfig, CacheKeySprint(1))
uIssuesKey == GetFullKey(SprintCacheConfig, CacheKeySprintIssues(7))
uReportKey == GetFullKey(SprintCacheConfig, ReportCacheKey(UpdateBoardArgs))

\* the stores that an accepted update of an issue of the sprint leaves
uStoresAfterUpdate ==
    { o.store : o \in { oo \in { UpdateIssue(cache, now, script, args) :
                                    script \in ToolScripts, args \in UpdateArgsTried } :
                           ~oo.failed } }

uSprintIssuesAfter(store) ==
    UNION { GetSprintIssues(store, now, Upstream(script), UpdateBoardArgs) :
               script \in FetchScripts }

uReportAfter(store) ==
    UNION { DailyStandupReport(store, now, Upstream(script), UpdateBoardArgs) :
               script \in FetchScripts }

\* the report call is answered with the report cached, without a request
uReportFromCache(o) ==
    /\ o.stage = "hit"
    /\ o.requests = 0
    /\ JsonParse(o.resp) = StoredData(cache, uReportKey)

\* the get_sprint_issues call is answered from the list cached
uListFromCache(o) ==
    /\ o.stage = "done"
    /\ o.issuesCached
    /\ JsonParse(o.resp) =
          SprintIssuesAnswer(ActiveSprint42, StoredData(cache, uIssuesKey))

----------------------------------------------------------------------------
(* How handleJiraTool reports a call that validate() rejected (SpecServer). *)

\* the body of the response of a call that ended in the catch block
sErrorBody(inv) == JsonParse(inv.out.resp)

\* the body is the response of the ValidationError of errors.ts
sReportedAsValidationFailure(body) ==
    /\ body.status = BaseValidationError.statusCode
    /\ "code" \in DOMAIN body.details
    /\ body.details.code = BaseValidationError.code

\* the body is the response ErrorHandler.handle gives to an error that is
\* none of its own
sReportedAsUnexpected(body) ==
    /\ body.status = 500
    /\ body.details = "An unexpected error occurred"

\* C37: a Jira tool call that input validation rejects is answered with an
\* error response that names a validation failure with status 400, never
\* with status 500 as an unexpected internal error.
C37_ValidationFailureReportedWith400 ==
    \A inv \in JiraInvocations(cache, now, jira) :
        ~inv.valid =>
            /\ sReportedAsValidationFailure(sErrorBody(inv))
            /\ ~sReportedAsUnexpected(sErrorBody(inv))

----------------------------------------------------------------------------
(* The length of the backoff waits of RetryHelper.retry (SpecRetry).        *)

\* C38 as stated: for every initialDelay, maxDelay and factor >= 1, no
\* backoff wait of retry is longer than maxDelay milliseconds.
C38_Original_NoWaitAboveMaxDelay ==
    rOpts.factor >= 1 =>
        \A k \in 1..Len(rWaits) : rWaits[k] <= rOpts.maxDelay

\* C38 amended: for every initialDelay, maxDelay and factor >= 1, the first
\* wait of a call lasts initialDelay milliseconds whatever maxDelay is, and
\* every later wait is at most maxDelay; so no wait is longer than maxDelay
\* when initialDelay <= maxDelay.
C38_OnlyFirstWaitMayExceedMaxDelay ==
    rOpts.factor >= 1 =>
        /\ \A k \in 1..Len(rWaits) :
              /\ k = 1 => rWaits[k] = rOpts.initialDelay
              /\ k > 1 => rWaits[k] <= rOpts.maxDelay
        /\ rOpts.initialDelay <= rOpts.maxDelay =>
              \A k \in 1..Len(rWaits) : rWaits[k] <= rOpts.maxDelay

\* a first wait above maxDelay, followed by a wait of maxDelay
C38_Witness ==
    /\ rOpts.initialDelay = 3000
    /\ rOpts.maxDelay = 1500
    /\ rOpts.factor = RetryFactor
    /\ rPc = "returned"
    /\ rWaits = <<3000, 1500>>

----------------------------------------------------------------------------
(* SpecTally: jira_get_sprint_issues called on board 1, one call at a time, *)
(* while the clock advances, for every sprint of at most MaxIssues issues   *)
(* drawn from TallyPool. `last` is the call answered in the last step, with *)
(* the body of its response.                                                *)

\* an issue whose status is named like a property of Object.prototype and
\* whose assignee is named __proto__
TallyOddIssue ==
    [ key |-> "WEB-11", status |-> <<"c","o","n","s","t","r","u","c","t","o","r">>,
      hasAssignee |-> TRUE, displayName |-> ProtoSetterKey, email |-> "",
      updated |-> NoStamp, created |-> NoStamp,
      duedate |-> <<>>, labels |-> <<>>, project |-> "WEB" ]

\* completed, in progress and to do issues, assigned and not
TallyPool ==
    { IssueOfKey(k) : k \in {"WEB-1", "WEB-2", "WEB-3", "API-7", "WEB-8"} }
    \cup {TallyOddIssue}

TallyLists == UNION {[1..n -> TallyPool] : n \in 0..MaxIssues}

TallyNoCall ==
    [ name |-> "none", ok |-> FALSE, requests |-> 0, stage |-> "none",
      body |-> <<>> ]

InitTally ==
    /\ cache = <<>>
    /\ now = 0
    /\ \E list \in TallyLists :
          jira = [ sprints |-> (1 :> <<ActiveSprint42>> @@ 2 :> <<>>),
                   issues |-> (7 :> list) ]
    /\ last = TallyNoCall
    /\ built = <<>>
    /\ BuilderIdle
    /\ RetryIdle
    /\ ExtraIdle

\* handleJiraTool('jira_get_sprint_issues', { boardId: 1 })
TallyGetSprintIssues ==
    \E script \in FetchScripts :
        \E o \in GetSprintIssues(cache, now, Upstream(script), UpdateBoardArgs) :
            /\ cache' = o.store
            /\ last' = [ name |-> "jira_get_sprint_issues", ok |-> o.stage = "done",
                         requests |-> o.requests, stage |-> o.stage,
                         body |-> JsonParse(o.resp) ]
            /\ UNCHANGED <<now, jira, built, bVars, rVars, xVars>>

TallyTick ==
    /\ now + UpdateTickStep <= UpdateMaxNow
    /\ now' = now + UpdateTickStep
    /\ last' = TallyNoCall
    /\ UNCHANGED <<cache, jira, built, bVars, rVars, xVars>>

NextTally ==
    \/ TallyGetSprintIssues
    \/ TallyTick

SpecTally == InitTally /\ [][NextTally]_vars

----------------------------------------------------------------------------
(* Claims about the counts of a jira_get_sprint_issues response (SpecTally).*)

\* the issues of the sprint: the tracker's list does not change in SpecTally
yFetched == jira.issues[7]

\* every value of the object is a number
yAllNumbers(counts) == \A k \in 1..Len(counts) : counts[k].isNumber

RECURSIVE ySum(_)
ySum(counts) == IF counts = <<>> THEN 0 ELSE Head(counts).n + ySum(Tail(counts))

\* the values of the object are numbers that add up to total
ySumsTo(counts, total) == yAllNumbers(counts) /\ ySum(counts) = total

\* the object has a count for the name
yCounted(counts, name) ==
    \E k \in 1..Len(counts) :
        counts[k].name = name /\ counts[k].isNumber /\ counts[k].n >= 1

yTotalIsFetched(body) ==
    /\ body.totalIssues = Len(yFetched)
    /\ body.totalIssues = body.summary.completedIssues
                          + body.summary.inProgressIssues
                          + body.summary.todoIssues

yCompletedIncluded(body) ==
    \A j \in 1..Len(yFetched) :
        categorizeStatus(StatusOf(yFetched[j])) = "completed" =>
            /\ yCounted(body.byStatus, StatusOf(yFetched[j]))
            /\ yCounted(body.byAssignee, IssueDataOf(yFetched[j], 0).assignee)

\* C39: in every get_sprint_issues response totalIssues is the number of
\* fetched sprint issues, the sum of the byStatus counts, the sum of the
\* byAssignee counts, and completedIssues + inProgressIssues + todoIssues of
\* the summary; completed issues are counted in byStatus and byAssignee.
C39_TotalsAgreeInEveryResponse ==
    last.ok =>
        /\ yTotalIsFetched(last.body)
        /\ ySumsTo(last.body.byStatus, last.body.totalIssues)
        /\ ySumsTo(last.body.byAssignee, last.body.totalIssues)
        /\ yCompletedIncluded(last.body)

\* no status and no display name of the sprint is a property of Object.prototype
yOwnNamesOnly ==
    \A j \in 1..Len(yFetched) :
        /\ StatusOf(yFetched[j]) \notin ObjectPrototypeTexts
        /\ IssueDataOf(yFetched[j], 0).assignee \notin ObjectPrototypeKeys

\* what holds of every response: the total and the summary agree with the
\* fetched issues, and the rest of C39 holds of sprints with own names only
yTotalsAgreeForOwnNames ==
    last.ok =>
        /\ yTotalIsFetched(last.body)
        /\ yOwnNamesOnly =>
              /\ ySumsTo(last.body.byStatus, last.body.totalIssues)
              /\ ySumsTo(last.body.byAssignee, last.body.totalIssues)
              /\ yCompletedIncluded(last.body)

============================================================================
